---- MODULE Spec2Model ----
(***************************************************************************)
(* substrate-subxt: the transaction submission pipeline of src/rpc.rs.     *)
(*                                                                         *)
(* One submission (Rpc::create_and_submit_extrinsic) is modelled as the    *)
(* futures-0.1 task it is: the node answers requests and pushes items on   *)
(* the two subscriptions, the task is polled and advances as far as the    *)
(* combinators (join3, and_then, filter_map, filter, into_future, join)    *)
(* let it.                                                                 *)
(***************************************************************************)
EXTENDS Naturals, Integers, Sequences, FiniteSets, TLC

---------------------------------------------------------------------------
(* Bounds of the model *)

\* statuses the node may emit on the watch subscription in one run
MaxStatuses == 2
\* statuses delivered by the transport and not yet read by the task
MaxStatusBuf == 2
\* change-sets the node may push on the storage subscription in one run
MaxChangeSets == 2
\* change-sets delivered by the transport and not yet read by the task
MaxEventBuf == 1
\* event records in one decoded System Events value
MaxRecords == 2
\* extrinsics in a block
MaxBlockLen == 2
\* how far the payload lengths given to the signing step reach around 256
MaxPayloadSlack == 6
\* modules in a runtime's metadata
MaxModules == 3
\* functions declared by a module
MaxCalls == 2
\* entries declared by the storage section of one module
MaxEntries == 2
\* members of a tuple type descriptor
MaxTupleLen == 2

---------------------------------------------------------------------------
(* Values *)

None == <<>>
Some(x) == <<x>>
IsSome(o) == Len(o) = 1
Unwrap(o) == o[1]

\* the payload length above which the hash of the payload is signed
SignThreshold == 256
\* encoded length of extra(index, 0): era byte, compact nonce, compact fee
ExtraLen == 3
\* encoded length of a T::Hash
HashLen == 32

Signer == "Alice"
OtherSigner == "Bob"
GenesisHashes == {"G0"}
BlockHashes == {"B1", "B2"}
\* the account nonces the node may hold in its store
StoredNonces == {1}
\* encoded lengths of the calls submitted through the pipeline
PipelineCallLens == {SignThreshold - ExtraLen - HashLen}
\* calls given to create_and_sign_extrinsic on its own: payloads of
\* SignThreshold - MaxPayloadSlack .. SignThreshold + MaxPayloadSlack bytes
SignCallLens ==
    (SignThreshold - ExtraLen - HashLen - MaxPayloadSlack) ..
    (SignThreshold - ExtraLen - HashLen + MaxPayloadSlack)
SignIndexes == {0, 1}
Calls(lens) == [len : lens]

\* twox_128(b"System Events"), the one key subscribe_events subscribes to
EventsKey == "twox_128(System Events)"
SubscribedKeys == {EventsKey}
\* a storage key the submission never subscribed to
OtherKey == "twox_128(Other)"

RECURSIVE SeqsUpTo(_, _)
SeqsUpTo(S, n) ==
    IF n = 0 THEN {<<>>}
    ELSE LET shorter == SeqsUpTo(S, n - 1)
         IN shorter \cup {Append(s, x) : s \in {t \in shorter : Len(t) = n - 1}, x \in S}

---------------------------------------------------------------------------
(* create_and_sign_extrinsic *)

blake2_256(bytes) == [blake2_256 |-> bytes, len |-> HashLen]

\* raw_payload.using_encoded: the SCALE encoding of (function, extra, genesis_hash)
EncodePayload(raw_payload) ==
    [bytes |-> raw_payload,
     len |-> raw_payload.function.len + ExtraLen + HashLen]

Sign(signer, message) == [by |-> signer, over |-> message]

Extra(nonce, fee) ==
    [genesis |-> "CheckGenesis", era |-> "Immortal", nonce |-> nonce,
     weight |-> "CheckWeight", fee |-> fee]

\* variant: the hash is signed from 256 bytes on
SignatureOf_AtLeast(payload, signer) ==
    IF payload.len >= SignThreshold
    THEN Sign(signer, blake2_256(payload))
    ELSE Sign(signer, payload)

SignatureOf(payload, signer) ==
    IF payload.len > SignThreshold
    THEN Sign(signer, blake2_256(payload))
    ELSE Sign(signer, payload)

create_and_sign_extrinsic(index, function, genesis_hash, signer) ==
    LET raw_payload == [function |-> function, extra |-> Extra(index, 0),
                        genesis_hash |-> genesis_hash]
        signature == SignatureOf(EncodePayload(raw_payload), signer)
    IN [function |-> raw_payload.function, signer |-> signer,
        signature |-> signature, extra |-> Extra(index, 0)]

\* T::Hashing::hash_of: a digest of the encoding of its argument
hash_of(x) == [hash_of |-> x]

---------------------------------------------------------------------------
(* The node's side: what it may answer and push *)

Errors == {"Extrinsic Usurped", "Extrinsic Dropped", "Extrinsic Invalid",
           "Stream terminated", "Genesis hash not found",
           "Failed to find block", "Failed to find Extrinsic"}

MsgError(text) == <<"Msg", text>>
RpcError(origin) == <<"Rpc", origin>>

\* transaction_pool::txpool::watcher::Status, and a transport error item
Statuses ==
    {<<"Future">>, <<"Ready">>, <<"Broadcast">>, <<"Usurped">>,
     <<"Dropped">>, <<"Invalid">>}
    \cup {<<"Finalized", b>> : b \in BlockHashes}
StatusItems == Statuses \cup {<<"Err">>}

\* srml_system::Phase
Phases == {<<"ApplyExtrinsic", i>> : i \in 0..(MaxBlockLen - 1)} \cup {<<"Finalization">>}

\* an event log: the k-th record carries event k
RecordLog(phases) == [k \in 1..Len(phases) |-> [phase |-> phases[k], event |-> k]]
RecordLogs == {RecordLog(ps) : ps \in SeqsUpTo(Phases, MaxRecords)}

\* Option<StorageData>: absent, bytes that are no Vec<EventRecord>, or a log
Datas == {<<"None">>, <<"Undecodable">>} \cup {<<"Records", log>> : log \in RecordLogs}
Entries == {<<k, d>> : k \in SubscribedKeys, d \in Datas}

\* an entry under the other key: one record, of position 0, whose event is
\* ForeignEvent (the events of a log under the events key are 1, 2, ..)
ForeignEvent == 0
ForeignEntry ==
    <<OtherKey, <<"Records", <<[phase |-> <<"ApplyExtrinsic", 0>>,
                                event |-> ForeignEvent]>>>>>>

\* changes that hold an entry under the other key, alone or next to the entry
\* of the events key: a StorageChangeSet is deserialized as it comes, whatever
\* keys the node put in it
ForeignChangeLists ==
    LET own == <<EventsKey, <<"Records", RecordLog(<<<<"ApplyExtrinsic", 0>>>>)>>>>
    IN {<<ForeignEntry>>, <<own, ForeignEntry>>, <<ForeignEntry, own>>}

\* the changes of a StorageChangeSet: at most one entry per subscribed key,
\* or one of the lists above
ChangeLists ==
    {ch \in SeqsUpTo(Entries, Cardinality(SubscribedKeys)) :
        \A i, j \in 1..Len(ch) : ch[i][1] = ch[j][1] => i = j}
    \cup ForeignChangeLists

\* what the storage subscription delivers: a change-set of some block, whose
\* changes are fixed when the task decodes them, or a transport error
ChangeSetItems == {<<"Set", b>> : b \in BlockHashes} \cup {<<"Err">>}

---------------------------------------------------------------------------
(* State *)

VARIABLES
    call,          \* the Call handed to create_and_submit_extrinsic
    nonceResp,     \* answer to state.storage(account nonce key)
    genesisResp,   \* answer to chain.block_hash(0)
    eventsResp,    \* answer to state.subscribe_storage([events key])
    pc,            \* where the submission future stands
    submitted,     \* the extrinsic handed to author.watch_extrinsic, if any
    ext_hash,      \* hash_of(extrinsic), computed before sending
    statusBuf,     \* statuses (and the end of the stream) delivered and not read
    statusSeen,    \* the items read from the status stream, in order
    statusLost,    \* statuses delivered and dropped unread with the stream
    bh,            \* block hash yielded by submit_and_watch
    signed_block,  \* the block returned by chain.block(bh)
    ext_index,     \* position of the extrinsic in signed_block
    eventBuf,      \* change-sets (and the end of the stream) delivered and not read
    eventsSeen,    \* the items read from the storage subscription, in order
    block_events,  \* value of the block_events future once it resolved
    result,        \* Ok(ExtrinsicSuccess)
    error,         \* Err(Error)
    sent,          \* how many times each request was issued
    subscription,  \* the storage subscription stream: "none", "open", "released"
    cancelled,     \* the caller dropped the submission future
    blockResp,     \* answer to chain.block(Some(bh))
    metaIn,        \* Metadata::try_from on its own: the RuntimeMetadataPrefixed
    metaOut,       \* Metadata::try_from on its own: Ok(Metadata) or Err(Error)
    lookup,        \* Metadata::module_name on the Metadata: the index and the result
    modIn,         \* ModuleMetadata::call on its own: module, function, params
    modOut,        \* ModuleMetadata::call on its own: the module and the result
    keyIn,         \* StorageMap::key on its own: entry prefix, default and key
    keyOut,        \* StorageMap::key on its own: the result under each entry type
    argIn,         \* EventArg::from_str on its own: the text
    argOut,        \* EventArg::from_str on its own: the result and its primitives
    sigIn,         \* create_and_sign_extrinsic on its own: arguments
    sigOut         \* create_and_sign_extrinsic on its own: the extrinsic

fanVars == <<nonceResp, genesisResp, eventsResp>>
statusVars == <<statusBuf, statusSeen, statusLost>>
eventVars == <<eventBuf, eventsSeen>>
blockVars == <<signed_block, ext_index, block_events>>
sigVars == <<sigIn, sigOut>>
keyVars == <<keyIn, keyOut>>
argVars == <<argIn, argOut>>
metaVars == <<metaIn, metaOut, lookup, modIn, modOut, keyVars, argVars>>
\* what only the steps that send, drop or cancel change
ownVars == <<sent, subscription, cancelled, blockResp>>
vars == <<call, fanVars, pc, submitted, ext_hash, statusVars, bh, blockVars,
          eventVars, result, error, ownVars, sigVars, metaVars>>

\* the requests of one submission
Requests == {"nonce", "genesis", "subscribe", "watch", "block"}

\* the future resolved, or was dropped by its caller
Terminated == pc \in {"done", "failed"} \/ cancelled

InitPipeline ==
    /\ call \in Calls(PipelineCallLens)
    /\ nonceResp = <<"Pending">>
    /\ genesisResp = <<"Pending">>
    /\ eventsResp = <<"Pending">>
    /\ pc = "fanout"
    /\ submitted = None
    /\ ext_hash = None
    /\ statusBuf = <<>>
    /\ statusSeen = <<>>
    /\ statusLost = 0
    /\ bh = None
    /\ signed_block = None
    /\ ext_index = None
    /\ eventBuf = <<>>
    /\ eventsSeen = <<>>
    /\ block_events = None
    /\ result = None
    /\ error = None
    /\ sent = [r \in Requests |->
                  IF r \in {"nonce", "genesis", "subscribe"} THEN 1 ELSE 0]
    /\ subscription = "none"
    /\ cancelled = FALSE
    /\ blockResp = <<"Pending">>

\* nothing is given to the functions checked on their own
SignIdle == sigIn = None /\ sigOut = None
MetaIdle == metaIn = None /\ metaOut = None /\ lookup = None
ModuleIdle == modIn = None /\ modOut = None
KeyIdle == keyIn = None /\ keyOut = None
ArgIdle == argIn = None /\ argOut = None

Init ==
    /\ InitPipeline
    /\ SignIdle
    /\ MetaIdle
    /\ ModuleIdle
    /\ KeyIdle
    /\ ArgIdle

\* the future resolves to Err(e)
Fail(e) ==
    /\ pc' = "failed"
    /\ error' = Some(e)
    /\ result' = None

\* a request is written to the channel
Issue(req) == [sent EXCEPT ![req] = @ + 1]

\* dropping the value that owns the stream, if the stream was obtained
Drop(stream) == IF stream = "open" THEN "released" ELSE stream

\* variant: the failure path keeps the stream alive
FailDrop_KeepStream(e) ==
    /\ Fail(e)
    /\ eventBuf' = <<>>
    /\ subscription' = subscription

\* ... and the storage subscription stream it owned is dropped with it
FailDrop(e) ==
    /\ Fail(e)
    /\ eventBuf' = <<>>
    /\ subscription' = Drop(subscription)

---------------------------------------------------------------------------
(* Fan-out: fetch_nonce, fetch_genesis_hash, subscribe_events, join3 *)

RespNonce ==
    /\ nonceResp[1] = "Pending"
    /\ \E r \in {<<"Err">>, <<"Ok", None>>} \cup {<<"Ok", Some(n)>> : n \in StoredNonces} :
          nonceResp' = r
    /\ UNCHANGED <<call, genesisResp, eventsResp, pc, submitted, ext_hash, statusVars,
                   bh, blockVars, eventVars, result, error, ownVars, sigVars, metaVars>>

RespGenesis ==
    /\ genesisResp[1] = "Pending"
    /\ \E r \in {<<"Err">>, <<"Ok", None>>} \cup {<<"Ok", Some(g)>> : g \in GenesisHashes} :
          genesisResp' = r
    /\ UNCHANGED <<call, nonceResp, eventsResp, pc, submitted, ext_hash, statusVars,
                   bh, blockVars, eventVars, result, error, ownVars, sigVars, metaVars>>

\* the stream of an answer that finds its future gone is dropped on arrival
RespSubscribe ==
    /\ eventsResp[1] = "Pending"
    /\ \E r \in {<<"Err">>, <<"Ok">>} :
          /\ eventsResp' = r
          /\ subscription' = IF r[1] = "Err" THEN subscription
                              ELSE IF Terminated THEN "released" ELSE "open"
    /\ UNCHANGED <<call, nonceResp, genesisResp, pc, submitted, ext_hash, statusVars,
                   bh, blockVars, eventVars, result, error, sent, cancelled,
                   blockResp, sigVars, metaVars>>

\* variant: a failed request gives the default like absent data
fetch_nonce_ErrAsDefault(resp) ==
    IF resp[1] = "Pending" THEN <<"NotReady">>
    ELSE IF resp[1] = "Err" THEN <<"Ok", 0>>
    ELSE <<"Ok", IF IsSome(resp[2]) THEN Unwrap(resp[2]) ELSE 0>>

\* fetch_nonce: absent data is Default::default(), present data is decoded
fetch_nonce(resp) ==
    IF resp[1] = "Pending" THEN <<"NotReady">>
    ELSE IF resp[1] = "Err" THEN <<"Err", RpcError("nonce")>>
    ELSE <<"Ok", IF IsSome(resp[2]) THEN Unwrap(resp[2]) ELSE 0>>

\* variant: an absent genesis hash is replaced by a default hash
genesis_hash_DefaultWhenAbsent(resp) ==
    IF resp[1] = "Pending" THEN <<"NotReady">>
    ELSE IF resp[1] = "Err" THEN <<"Err", RpcError("genesis")>>
    ELSE IF IsSome(resp[2]) THEN <<"Ok", Unwrap(resp[2])>>
    ELSE <<"Ok", "G0">>

\* fetch_genesis_hash and the ok_or of create_and_submit_extrinsic
genesis_hash(resp) ==
    IF resp[1] = "Pending" THEN <<"NotReady">>
    ELSE IF resp[1] = "Err" THEN <<"Err", RpcError("genesis")>>
    ELSE IF IsSome(resp[2]) THEN <<"Ok", Unwrap(resp[2])>>
    ELSE <<"Err", MsgError("Genesis hash not found")>>

subscribe_events(resp) ==
    IF resp[1] = "Pending" THEN <<"NotReady">>
    ELSE IF resp[1] = "Err" THEN <<"Err", RpcError("subscribe")>>
    ELSE <<"Ok", "events">>

\* variant: the subscription is not part of the join
Join3_IgnoreEvents(a, b, c) ==
    IF a[1] = "Err" THEN a
    ELSE IF b[1] = "Err" THEN b
    ELSE IF a[1] = "Ok" /\ b[1] = "Ok" THEN <<"Ok", a[2], b[2]>>
    ELSE <<"NotReady">>

\* Join3::poll: a, b, c are polled in this order and the first error returns
Join3(a, b, c) ==
    IF a[1] = "Err" THEN a
    ELSE IF b[1] = "Err" THEN b
    ELSE IF c[1] = "Err" THEN c
    ELSE IF a[1] = "Ok" /\ b[1] = "Ok" /\ c[1] = "Ok" THEN <<"Ok", a[2], b[2]>>
    ELSE <<"NotReady">>

\* a poll of the join3 that makes progress; on success the and_then closure
\* builds and signs the extrinsic, hashes it and sends author.watch_extrinsic
PollJoin3 ==
    /\ pc = "fanout"
    /\ ~cancelled
    /\ LET j == Join3(fetch_nonce(nonceResp), genesis_hash(genesisResp),
                      subscribe_events(eventsResp))
       IN /\ j[1] # "NotReady"
          /\ IF j[1] = "Err"
             THEN /\ FailDrop(j[2])
                  /\ UNCHANGED <<submitted, ext_hash, sent>>
             ELSE LET extrinsic == create_and_sign_extrinsic(j[2], call, j[3], Signer)
                  IN /\ ext_hash' = Some(hash_of(extrinsic))
                     /\ submitted' = Some(extrinsic)
                     /\ sent' = Issue("watch")
                     /\ pc' = "submitting"
                     /\ UNCHANGED <<result, error, eventBuf, subscription>>
    /\ UNCHANGED <<call, fanVars, statusVars, bh, blockVars, eventsSeen,
                   cancelled, blockResp, sigVars, metaVars>>

---------------------------------------------------------------------------
(* submit_and_watch *)

\* a stream closed by the transport gives its items, then None
EndOfStream == <<"End">>
Ended(buf) == buf # <<>> /\ buf[Len(buf)] = EndOfStream

\* variant: a submission request that failed is sent again
RespWatch_Retry ==
    /\ pc = "submitting"
    /\ ~cancelled
    /\ \/ /\ pc' = "watching"
          /\ UNCHANGED sent
       \/ /\ sent' = Issue("watch")
          /\ UNCHANGED pc
    /\ UNCHANGED <<call, fanVars, submitted, ext_hash, statusVars, bh, blockVars,
                   eventVars, result, error, subscription, cancelled, blockResp,
                   sigVars, metaVars>>

\* the node answers author.watch_extrinsic: a status stream, or an error
RespWatch ==
    /\ pc = "submitting"
    /\ ~cancelled
    /\ \/ /\ pc' = "watching"
          /\ UNCHANGED <<result, error, eventBuf, subscription>>
       \/ FailDrop(RpcError("watch"))
    /\ UNCHANGED <<call, fanVars, submitted, ext_hash, statusVars, bh, blockVars,
                   eventsSeen, sent, cancelled, blockResp, sigVars, metaVars>>

\* the node reports a pool status (or the transport an error) on the stream
EmitStatus ==
    /\ pc = "watching"
    /\ ~cancelled
    /\ ~Ended(statusBuf)
    /\ Len(statusBuf) < MaxStatusBuf
    /\ Len(statusSeen) + Len(statusBuf) < MaxStatuses
    /\ \E s \in StatusItems : statusBuf' = Append(statusBuf, s)
    /\ UNCHANGED <<call, fanVars, pc, submitted, ext_hash, statusSeen,
                   statusLost, bh, blockVars, eventVars, result, error, ownVars,
                   sigVars, metaVars>>

\* the status stream is closed: nothing follows what was delivered
EndStatus ==
    /\ pc = "watching"
    /\ ~cancelled
    /\ ~Ended(statusBuf)
    /\ Len(statusBuf) < MaxStatusBuf
    /\ Len(statusSeen) + Len(statusBuf) < MaxStatuses
    /\ statusBuf' = Append(statusBuf, EndOfStream)
    /\ UNCHANGED <<call, fanVars, pc, submitted, ext_hash, statusSeen,
                   statusLost, bh, blockVars, eventVars, result, error, ownVars,
                   sigVars, metaVars>>

\* variant: Usurped is ignored like an in-progress status
StatusFilter_UsurpedTransient(status) ==
    CASE status[1] \in {"Future", "Ready", "Broadcast", "Usurped"} -> <<"Skip">>
      [] status[1] = "Finalized" -> <<"Ok", status[2]>>
      [] status[1] = "Dropped" -> <<"Err", "Extrinsic Dropped">>
      [] status[1] = "Invalid" -> <<"Err", "Extrinsic Invalid">>

\* variant: Dropped is reported with the message of Invalid
StatusFilter_DroppedAsInvalid(status) ==
    CASE status[1] \in {"Future", "Ready", "Broadcast"} -> <<"Skip">>
      [] status[1] = "Finalized" -> <<"Ok", status[2]>>
      [] status[1] = "Usurped" -> <<"Err", "Extrinsic Usurped">>
      [] status[1] = "Dropped" -> <<"Err", "Extrinsic Invalid">>
      [] status[1] = "Invalid" -> <<"Err", "Extrinsic Invalid">>

\* the closure given to filter_map
StatusFilter(status) ==
    CASE status[1] \in {"Future", "Ready", "Broadcast"} -> <<"Skip">>
      [] status[1] = "Finalized" -> <<"Ok", status[2]>>
      [] status[1] = "Usurped" -> <<"Err", "Extrinsic Usurped">>
      [] status[1] = "Dropped" -> <<"Err", "Extrinsic Dropped">>
      [] status[1] = "Invalid" -> <<"Err", "Extrinsic Invalid">>

\* variant: the poll reads on after the item it keeps
RECURSIVE WatchPoll_Drain(_)
WatchPoll_Drain(buf) ==
    IF buf = <<>>
    THEN [out |-> <<"NotReady">>, rest |-> buf]
    ELSE IF Head(buf) = EndOfStream
    THEN [out |-> <<"End">>, rest |-> <<>>]
    ELSE IF Head(buf)[1] = "Err"
    THEN [out |-> <<"StreamErr">>, rest |-> <<>>]
    ELSE LET kept == StatusFilter(Head(buf))
         IN IF kept[1] = "Skip"
            THEN WatchPoll_Drain(Tail(buf))
            ELSE [out |-> <<"Item", kept>>, rest |-> <<>>]

\* one poll of stream.filter_map(f).into_future(): items are read until the
\* closure keeps one, the stream fails, ends, or has nothing more to give
RECURSIVE WatchPoll(_)
WatchPoll(buf) ==
    IF buf = <<>>
    THEN [out |-> <<"NotReady">>, rest |-> buf]
    ELSE IF Head(buf) = EndOfStream
    THEN [out |-> <<"End">>, rest |-> Tail(buf)]
    ELSE IF Head(buf)[1] = "Err"
    THEN [out |-> <<"StreamErr">>, rest |-> Tail(buf)]
    ELSE LET kept == StatusFilter(Head(buf))
         IN IF kept[1] = "Skip"
            THEN WatchPoll(Tail(buf))
            ELSE [out |-> <<"Item", kept>>, rest |-> Tail(buf)]

\* the items a poll took from a buffer, given what it left
Taken(buf, rest) == SubSeq(buf, 1, Len(buf) - Len(rest))

\* variant: the end of the stream is reported as a dropped extrinsic
WatchOutcome_EndAsDropped(out) ==
    CASE out[1] = "NotReady" -> <<"NotReady">>
      [] out[1] = "StreamErr" -> <<"Err", RpcError("status stream")>>
      [] out[1] = "End" -> <<"Err", MsgError("Extrinsic Dropped")>>
      [] out[1] = "Item" ->
            IF out[2][1] = "Ok" THEN <<"Ok", out[2][2]>>
            ELSE <<"Err", MsgError(out[2][2])>>

\* map_err / and_then after into_future: what submit_and_watch resolves to
WatchOutcome(out) ==
    CASE out[1] = "NotReady" -> <<"NotReady">>
      [] out[1] = "StreamErr" -> <<"Err", RpcError("status stream")>>
      [] out[1] = "End" -> <<"Err", MsgError("Stream terminated")>>
      [] out[1] = "Item" ->
            IF out[2][1] = "Ok" THEN <<"Ok", out[2][2]>>
            ELSE <<"Err", MsgError(out[2][2])>>

\* variant: the poll that watches the statuses also reads the storage
\* subscription, as a branch running beside the status watch would
PollStatus_ReadsEvents ==
    /\ pc = "watching"
    /\ ~cancelled
    /\ statusBuf # <<>>
    /\ LET p == WatchPoll(statusBuf)
           o == WatchOutcome(p.out)
       IN /\ statusBuf' = <<>>
          /\ statusLost' = statusLost + Len(p.rest) - (IF Ended(p.rest) THEN 1 ELSE 0)
          /\ statusSeen' = statusSeen \o Taken(statusBuf, p.rest)
          /\ eventsSeen' = eventsSeen \o eventBuf
          /\ eventBuf' = <<>>
          /\ CASE o[1] = "NotReady" ->
                      UNCHANGED <<pc, bh, result, error, subscription, sent>>
               [] o[1] = "Ok" -> /\ pc' = "fetching"
                                 /\ bh' = Some(o[2])
                                 /\ sent' = Issue("block")
                                 /\ UNCHANGED <<result, error, subscription>>
               [] o[1] = "Err" -> /\ Fail(o[2])
                                  /\ subscription' = Drop(subscription)
                                  /\ UNCHANGED <<bh, sent>>
    /\ UNCHANGED <<call, fanVars, submitted, ext_hash, blockVars,
                   cancelled, blockResp, sigVars, metaVars>>

\* a poll of submit_and_watch with something to read; when it resolves the
\* stream is dropped with what it still held, and on Ok the next and_then
\* sends chain.block(Some(bh))
PollStatus ==
    /\ pc = "watching"
    /\ ~cancelled
    /\ statusBuf # <<>>
    /\ LET p == WatchPoll(statusBuf)
           o == WatchOutcome(p.out)
       IN /\ statusBuf' = <<>>
          /\ statusLost' = statusLost + Len(p.rest) - (IF Ended(p.rest) THEN 1 ELSE 0)
          /\ statusSeen' = statusSeen \o Taken(statusBuf, p.rest)
          /\ CASE o[1] = "NotReady" ->
                      UNCHANGED <<pc, bh, result, error, eventBuf, subscription, sent>>
               [] o[1] = "Ok" -> /\ pc' = "fetching"
                                 /\ bh' = Some(o[2])
                                 /\ sent' = Issue("block")
                                 /\ UNCHANGED <<result, error, eventBuf, subscription>>
               [] o[1] = "Err" -> /\ FailDrop(o[2])
                                  /\ UNCHANGED <<bh, sent>>
    /\ UNCHANGED <<call, fanVars, submitted, ext_hash, blockVars,
                   eventsSeen, cancelled, blockResp, sigVars, metaVars>>

---------------------------------------------------------------------------
(* wait_for_block_events *)

\* extrinsics of other accounts that a block may hold next to the submitted one
OtherExtrinsics(sub) ==
    {create_and_sign_extrinsic(sub.extra.nonce, sub.function, g, OtherSigner) :
        g \in GenesisHashes}

\* the blocks the node may return for chain.block(bh)
SignedBlocks(sub) ==
    [extrinsics : SeqsUpTo({sub} \cup OtherExtrinsics(sub), MaxBlockLen)]

\* variant: the last match instead of the first
Position_Last(extrinsics, hash) ==
    LET matches == {i \in 1..Len(extrinsics) : hash_of(extrinsics[i]) = hash}
    IN IF matches = {} THEN None
       ELSE Some((CHOOSE i \in matches : \A j \in matches : i >= j) - 1)

\* iter().position(|ext| hash_of(ext) == ext_hash): zero-based, first match
Position(extrinsics, hash) ==
    LET matches == {i \in 1..Len(extrinsics) : hash_of(extrinsics[i]) = hash}
    IN IF matches = {} THEN None
       ELSE Some((CHOOSE i \in matches : \A j \in matches : i <= j) - 1)

\* data.as_ref().and_then(|data| Decode::decode(..)) for Vec<EventRecord>
DecodeRecords(data) ==
    IF data[1] = "Records" THEN Some(data[2]) ELSE None

\* filter_map(decode).flat_map(|events| events).collect() over event.changes
RECURSIVE Records(_)
Records(changes) ==
    IF changes = <<>> THEN <<>>
    ELSE LET decoded == DecodeRecords(Head(changes)[2])
         IN (IF IsSome(decoded) THEN Unwrap(decoded) ELSE <<>>) \o Records(Tail(changes))

\* the closure given to events.map
MapChangeSet(event) == [block |-> event.block, records |-> Records(event.changes)]

\* the StorageChangeSet a delivered item deserializes to
ChangeSetOf(item, changes) == [block |-> item[2], changes |-> changes]

\* variant: every change-set is kept
KeepChangeSet_Any(mapped, block_hash) == TRUE

\* variant: the comparison is inverted
KeepChangeSet_Other(mapped, block_hash) == mapped.block # block_hash

\* the closure given to filter
KeepChangeSet(mapped, block_hash) == mapped.block = block_hash

\* variant: the end of the stream is taken as an error of the stream
RECURSIVE EventsPoll_EndAsError(_, _, _)
EventsPoll_EndAsError(buf, block_hash, changes) ==
    IF buf = <<>>
    THEN [out |-> <<"NotReady">>, rest |-> buf]
    ELSE IF Head(buf) = EndOfStream \/ Head(buf)[1] = "Err"
    THEN [out |-> <<"StreamErr">>, rest |-> Tail(buf)]
    ELSE LET mapped == MapChangeSet(ChangeSetOf(Head(buf), changes))
         IN IF KeepChangeSet(mapped, block_hash)
            THEN [out |-> <<"Item", mapped>>, rest |-> Tail(buf)]
            ELSE EventsPoll_EndAsError(Tail(buf), block_hash, changes)

RECURSIVE EventsPoll(_, _, _)

\* variant: what the subscription delivered before the first poll is discarded
EventsPoll_FromFirstPoll(buf, block_hash, changes) ==
    IF eventsSeen = <<>> /\ buf # <<>>
    THEN [out |-> <<"NotReady">>, rest |-> <<>>]
    ELSE IF buf = <<>>
    THEN [out |-> <<"NotReady">>, rest |-> buf]
    ELSE IF Head(buf) = EndOfStream
    THEN [out |-> <<"End">>, rest |-> Tail(buf)]
    ELSE IF Head(buf)[1] = "Err"
    THEN [out |-> <<"StreamErr">>, rest |-> Tail(buf)]
    ELSE LET mapped == MapChangeSet(ChangeSetOf(Head(buf), changes))
         IN IF KeepChangeSet(mapped, block_hash)
            THEN [out |-> <<"Item", mapped>>, rest |-> Tail(buf)]
            ELSE EventsPoll(Tail(buf), block_hash, changes)

\* one poll of events.map(..).filter(..).into_future(); changes are those of
\* the change-sets it reads
EventsPoll(buf, block_hash, changes) ==
    IF buf = <<>>
    THEN [out |-> <<"NotReady">>, rest |-> buf]
    ELSE IF Head(buf) = EndOfStream
    THEN [out |-> <<"End">>, rest |-> Tail(buf)]
    ELSE IF Head(buf)[1] = "Err"
    THEN [out |-> <<"StreamErr">>, rest |-> Tail(buf)]
    ELSE LET mapped == MapChangeSet(ChangeSetOf(Head(buf), changes))
         IN IF KeepChangeSet(mapped, block_hash)
            THEN [out |-> <<"Item", mapped>>, rest |-> Tail(buf)]
            ELSE EventsPoll(Tail(buf), block_hash, changes)

\* the changes a poll may find in the change-set it keeps: those of the
\* change-sets it drops are decoded and forgotten
Readable(buf, block_hash) ==
    IF EventsPoll(buf, block_hash, <<>>).out[1] = "Item"
    THEN ChangeLists ELSE {<<>>}

\* variant: every ApplyExtrinsic record is kept, whatever its position
PhaseFilter_AnyPosition(records, index) ==
    LET applied(e) == e.phase[1] = "ApplyExtrinsic"
        kept == SelectSeq(records, applied)
    IN [k \in 1..Len(kept) |-> kept[k].event]

\* the phase filter of the final map: events of ApplyExtrinsic(ext_index)
PhaseFilter(records, index) ==
    LET applied(e) == e.phase[1] = "ApplyExtrinsic" /\ e.phase[2] = index
        kept == SelectSeq(records, applied)
    IN [k \in 1..Len(kept) |-> kept[k].event]

\* events.iter().flat_map(|(_, events)| events) over the Option, then the filter
AttributedEvents(events, index) ==
    PhaseFilter(IF IsSome(events) THEN Unwrap(events).records ELSE <<>>, index)

\* Join::poll of block_events.join(ext_index): block_events is polled first and
\* its error returns at once; then ext_index, already resolved, gives its error.
\* When the join resolves, the subscription stream is dropped.
JoinPoll(index) ==
    \E changes \in Readable(eventBuf, Unwrap(bh)) :
    LET p == EventsPoll(eventBuf, Unwrap(bh), changes)
    IN /\ eventsSeen' = eventsSeen \o Taken(eventBuf, p.rest)
       /\ IF p.out[1] = "StreamErr"
          THEN /\ FailDrop(RpcError("event stream"))
               /\ UNCHANGED block_events
          ELSE IF ~IsSome(index)
          THEN /\ FailDrop(MsgError("Failed to find Extrinsic"))
               /\ UNCHANGED block_events
          ELSE IF p.out[1] = "NotReady"
          THEN /\ pc' = "waiting_events"
               /\ eventBuf' = p.rest
               /\ UNCHANGED <<block_events, result, error, subscription>>
          ELSE LET events == IF p.out[1] = "Item" THEN Some(p.out[2]) ELSE None
               IN /\ block_events' = events
                  /\ pc' = "done"
                  /\ eventBuf' = <<>>
                  /\ subscription' = Drop(subscription)
                  /\ result' = Some([block |-> Unwrap(bh),
                                     extrinsic |-> Unwrap(ext_hash),
                                     events |-> AttributedEvents(events, Unwrap(index))])
                  /\ UNCHANGED error

\* what the node may answer to chain.block(Some(bh))
BlockResponses(sub) ==
    {<<"Err">>, <<"Ok", None>>} \cup {<<"Ok", Some(sb)>> : sb \in SignedBlocks(sub)}

\* variant: an absent block is taken as a block without extrinsics
FoundBlock_EmptyWhenAbsent(resp) ==
    IF resp[1] = "Err" THEN <<"Err", RpcError("block")>>
    ELSE IF IsSome(resp[2]) THEN <<"Ok", Unwrap(resp[2])>>
    ELSE <<"Ok", [extrinsics |-> <<>>]>>

\* map_err of the block request, then b.ok_or("Failed to find block {:?}")
FoundBlock(resp) ==
    IF resp[1] = "Err" THEN <<"Err", RpcError("block")>>
    ELSE IF IsSome(resp[2]) THEN <<"Ok", Unwrap(resp[2])>>
    ELSE <<"Err", MsgError("Failed to find block")>>

\* the node answers chain.block(Some(bh)); a block found is handed to
\* wait_for_block_events, whose future is polled at once
RespBlock ==
    /\ pc = "fetching"
    /\ ~cancelled
    /\ \E resp \in BlockResponses(Unwrap(submitted)) :
          LET b == FoundBlock(resp)
          IN /\ blockResp' = resp
             /\ IF b[1] = "Err"
                THEN /\ FailDrop(b[2])
                     /\ UNCHANGED <<blockVars, eventsSeen>>
                ELSE LET index == Position(b[2].extrinsics, Unwrap(ext_hash))
                     IN /\ signed_block' = Some(b[2])
                        /\ ext_index' = index
                        /\ JoinPoll(index)
    /\ UNCHANGED <<call, fanVars, submitted, ext_hash, statusVars, bh,
                   sent, cancelled, sigVars, metaVars>>

\* a later poll of the join, woken by the storage subscription
PollEvents ==
    /\ pc = "waiting_events"
    /\ ~cancelled
    /\ eventBuf # <<>>
    /\ JoinPoll(ext_index)
    /\ UNCHANGED <<call, fanVars, submitted, ext_hash, statusVars, bh, signed_block,
                   ext_index, sent, cancelled, blockResp, sigVars, metaVars>>

\* the node pushes a change-set (or the transport an error) on the subscription
EmitChangeSet ==
    /\ eventsResp[1] = "Ok"
    /\ ~Terminated
    /\ ~Ended(eventBuf)
    /\ Len(eventBuf) < MaxEventBuf
    /\ Len(eventsSeen) + Len(eventBuf) < MaxChangeSets
    /\ \E item \in ChangeSetItems : eventBuf' = Append(eventBuf, item)
    /\ UNCHANGED <<call, fanVars, pc, submitted, ext_hash, statusVars, bh, blockVars,
                   eventsSeen, result, error, ownVars, sigVars, metaVars>>

\* the storage subscription stream is closed: nothing follows what was delivered
EndEvents ==
    /\ eventsResp[1] = "Ok"
    /\ ~Terminated
    /\ ~Ended(eventBuf)
    /\ Len(eventBuf) < MaxEventBuf
    /\ Len(eventsSeen) + Len(eventBuf) < MaxChangeSets
    /\ eventBuf' = Append(eventBuf, EndOfStream)
    /\ UNCHANGED <<call, fanVars, pc, submitted, ext_hash, statusVars, bh, blockVars,
                   eventsSeen, result, error, ownVars, sigVars, metaVars>>

\* the caller drops the future before it resolved: everything it owns is
\* dropped, the two streams with what they held
Cancel ==
    /\ ~Terminated
    /\ cancelled' = TRUE
    /\ subscription' = Drop(subscription)
    /\ statusBuf' = <<>>
    /\ eventBuf' = <<>>
    /\ UNCHANGED <<call, fanVars, pc, submitted, ext_hash, statusSeen, statusLost, bh,
                   blockVars, eventsSeen, result, error, sent, blockResp, sigVars, metaVars>>

---------------------------------------------------------------------------
(* The submission pipeline *)

Next ==
    \/ RespNonce
    \/ RespGenesis
    \/ RespSubscribe
    \/ PollJoin3
    \/ RespWatch
    \/ EmitStatus
    \/ EndStatus
    \/ PollStatus
    \/ RespBlock
    \/ PollEvents
    \/ EmitChangeSet
    \/ EndEvents
    \/ Cancel

Spec == Init /\ [][Next]_vars

\* The pipeline with a caller that keeps the future until it resolves. The
\* executor polls the future whenever a response or a push wakes it, and the
\* transport hands over every response of the node: these steps are weakly
\* fair. What the node pushes on the two subscriptions, and when, is its own
\* choice: EmitStatus, EndStatus, EmitChangeSet and EndEvents are not fair.
\*
\* The node of this specification draws from smaller sets where the choice
\* does not bear on progress: one transient status and one terminal status
\* stand for their kind, a block holds the submitted extrinsic alone or with
\* one other, and the change-set that is kept decodes to at most one record.
LiveStatusItems ==
    {<<"Ready">>, <<"Usurped">>, <<"Err">>, EndOfStream}
    \cup {<<"Finalized", b>> : b \in BlockHashes}

LiveScope ==
    /\ \A k \in 1..Len(statusSeen) : statusSeen[k] \in LiveStatusItems
    /\ \A k \in 1..Len(statusBuf) : statusBuf[k] \in LiveStatusItems
    /\ IsSome(signed_block) => Len(Unwrap(signed_block).extrinsics) <= 2
    /\ IsSome(block_events) => Len(Unwrap(block_events).records) <= 1

NextLive ==
    \/ RespNonce /\ LiveScope'
    \/ RespGenesis /\ LiveScope'
    \/ RespSubscribe /\ LiveScope'
    \/ PollJoin3 /\ LiveScope'
    \/ RespWatch /\ LiveScope'
    \/ EmitStatus /\ LiveScope'
    \/ EndStatus /\ LiveScope'
    \/ PollStatus /\ LiveScope'
    \/ RespBlock /\ LiveScope'
    \/ PollEvents /\ LiveScope'
    \/ EmitChangeSet /\ LiveScope'
    \/ EndEvents /\ LiveScope'

FairDelivery ==
    /\ WF_vars(RespNonce)
    /\ WF_vars(RespGenesis)
    /\ WF_vars(RespSubscribe)
    /\ WF_vars(PollJoin3)
    /\ WF_vars(RespWatch)
    /\ WF_vars(PollStatus)
    /\ WF_vars(RespBlock)
    /\ WF_vars(PollEvents)

SpecLive == Init /\ [][NextLive]_vars /\ FairDelivery

---------------------------------------------------------------------------
(* create_and_sign_extrinsic on its own *)

SignInputs ==
    [index : SignIndexes, function : Calls(SignCallLens),
     genesis_hash : GenesisHashes, signer : {Signer, OtherSigner}]

InitSign ==
    /\ InitPipeline
    /\ MetaIdle
    /\ ModuleIdle
    /\ KeyIdle
    /\ ArgIdle
    /\ sigIn \in {Some(i) : i \in SignInputs}
    /\ sigOut = None

SignExtrinsic ==
    /\ IsSome(sigIn)
    /\ sigOut = None
    /\ LET in == Unwrap(sigIn)
       IN sigOut' = Some(create_and_sign_extrinsic(in.index, in.function,
                                                   in.genesis_hash, in.signer))
    /\ UNCHANGED <<call, fanVars, pc, submitted, ext_hash, statusVars, bh, blockVars,
                   eventVars, result, error, ownVars, sigIn, metaVars>>

NextSign == SignExtrinsic

SpecSign == InitSign /\ [][NextSign]_vars

---------------------------------------------------------------------------
(* metadata.rs: EventArg *)

\* text is a sequence of one-character strings
starts_with(s, prefix) == Len(s) >= Len(prefix) /\ SubSeq(s, 1, Len(prefix)) = prefix
ends_with(s, c) == Len(s) >= 1 /\ s[Len(s)] = c

\* str::split(','): the pieces between the commas, empty pieces included
RECURSIVE split(_, _)
split(s, c) ==
    LET commas == {i \in 1..Len(s) : s[i] = c}
    IN IF commas = {} THEN <<s>>
       ELSE LET i == CHOOSE k \in commas : \A j \in commas : k <= j
            IN <<SubSeq(s, 1, i - 1)>> \o split(SubSeq(s, i + 1, Len(s)), c)

\* str::trim
RECURSIVE trim(_)
trim(s) ==
    IF s # <<>> /\ s[1] = " " THEN trim(Tail(s))
    ELSE IF s # <<>> /\ s[Len(s)] = " " THEN trim(SubSeq(s, 1, Len(s) - 1))
    ELSE s

InvalidEventArg(s, why) == <<"InvalidEventArg", s, why>>

\* impl FromStr for EventArg; parse_args is the loop over the tuple's pieces,
\* left at the first piece that fails
RECURSIVE from_str(_), parse_args(_)

\* variant: a Vec or a tuple that is not closed is taken as a primitive
from_str_UnclosedAsPrimitive(s) ==
    IF starts_with(s, <<"V", "e", "c", "<">>) /\ ends_with(s, ">")
    THEN LET inner == from_str(SubSeq(s, 5, Len(s) - 1))
         IN IF inner[1] = "Ok" THEN <<"Ok", <<"Vec", inner[2]>>>> ELSE inner
    ELSE IF starts_with(s, <<"(">>) /\ ends_with(s, ")")
    THEN LET args == parse_args(split(SubSeq(s, 2, Len(s) - 1), ","))
         IN IF args[1] = "Ok" THEN <<"Ok", <<"Tuple", args[2]>>>> ELSE args
    ELSE <<"Ok", <<"Primitive", s>>>>

\* variant: the name of a primitive is trimmed
from_str_TrimsPrimitive(s) ==
    IF starts_with(s, <<"V", "e", "c", "<">>)
    THEN IF ends_with(s, ">")
         THEN LET inner == from_str(SubSeq(s, 5, Len(s) - 1))
              IN IF inner[1] = "Ok" THEN <<"Ok", <<"Vec", inner[2]>>>> ELSE inner
         ELSE <<"Err", InvalidEventArg(s, "Expected closing > for Vec")>>
    ELSE IF starts_with(s, <<"(">>)
    THEN IF ends_with(s, ")")
         THEN LET args == parse_args(split(SubSeq(s, 2, Len(s) - 1), ","))
              IN IF args[1] = "Ok" THEN <<"Ok", <<"Tuple", args[2]>>>> ELSE args
         ELSE <<"Err", InvalidEventArg(s, "Expecting closing ) for tuple")>>
    ELSE <<"Ok", <<"Primitive", trim(s)>>>>

from_str(s) ==
    IF starts_with(s, <<"V", "e", "c", "<">>)
    THEN IF ends_with(s, ">")
         THEN LET inner == from_str(SubSeq(s, 5, Len(s) - 1))
              IN IF inner[1] = "Ok" THEN <<"Ok", <<"Vec", inner[2]>>>> ELSE inner
         ELSE <<"Err", InvalidEventArg(s, "Expected closing > for Vec")>>
    ELSE IF starts_with(s, <<"(">>)
    THEN IF ends_with(s, ")")
         THEN LET args == parse_args(split(SubSeq(s, 2, Len(s) - 1), ","))
              IN IF args[1] = "Ok" THEN <<"Ok", <<"Tuple", args[2]>>>> ELSE args
         ELSE <<"Err", InvalidEventArg(s, "Expecting closing ) for tuple")>>
    ELSE <<"Ok", <<"Primitive", s>>>>

parse_args(pieces) ==
    IF pieces = <<>> THEN <<"Ok", <<>>>>
    ELSE LET arg == from_str(trim(Head(pieces)))
         IN IF arg[1] = "Err" THEN arg
            ELSE LET rest == parse_args(Tail(pieces))
                 IN IF rest[1] = "Err" THEN rest
                    ELSE <<"Ok", <<arg[2]>> \o rest[2]>>

\* variant: the members of a tuple are taken from the last to the first
RECURSIVE primitives_LastFirst(_), extend_LastFirst(_)
primitives_LastFirst(self) ==
    CASE self[1] = "Primitive" -> <<self[2]>>
      [] self[1] = "Vec" -> primitives_LastFirst(self[2])
      [] self[1] = "Tuple" -> extend_LastFirst(self[2])

extend_LastFirst(args) ==
    IF args = <<>> THEN <<>>
    ELSE extend_LastFirst(Tail(args)) \o primitives_LastFirst(Head(args))

\* EventArg::primitives; extend is the loop over the members of a tuple
RECURSIVE primitives(_), extend(_)
primitives(self) ==
    CASE self[1] = "Primitive" -> <<self[2]>>
      [] self[1] = "Vec" -> primitives(self[2])
      [] self[1] = "Tuple" -> extend(self[2])

extend(args) ==
    IF args = <<>> THEN <<>>
    ELSE primitives(Head(args)) \o extend(Tail(args))

---------------------------------------------------------------------------
(* metadata.rs: from the runtime's metadata to Metadata *)

\* the magic number of a metadata blob, the bytes "meta"
META_RESERVED == "meta"

\* DecodeDifferent: Decoded(value), or Encode, a value that was never decoded
Decoded(value) == <<"Decoded", value>>
NotDecoded == <<"Encode">>

convert(dd) ==
    IF dd[1] = "Decoded" THEN <<"Ok", dd[2]>> ELSE <<"Err", <<"ExpectedDecoded">>>>

\* HashMap::new() and HashMap::insert: a later insert replaces the value
EmptyMap == <<>>
Insert(map, key, value) ==
    [k \in (DOMAIN map) \cup {key} |-> IF k = key THEN value ELSE map[k]]

\* variant: the entry's name comes first
EntryPrefix_NameFirst(prefix, entry_name) == entry_name \o " " \o prefix

\* format!("{} {}", prefix, entry_name)
EntryPrefix(prefix, entry_name) == prefix \o " " \o entry_name

convert_entry(prefix, entry) ==
    LET default == convert(entry.default)
    IN IF default[1] = "Err" THEN default
       ELSE <<"Ok", [prefix |-> prefix, modifier |-> entry.modifier,
                     ty |-> entry.ty, default |-> default[2]]>>

\* the loop over the arguments of an event
RECURSIVE ConvertArguments(_)
ConvertArguments(args) ==
    IF args = <<>> THEN <<"Ok", <<>>>>
    ELSE LET arg == from_str(Head(args))
         IN IF arg[1] = "Err" THEN arg
            ELSE LET rest == ConvertArguments(Tail(args))
                 IN IF rest[1] = "Err" THEN rest
                    ELSE <<"Ok", <<arg[2]>> \o rest[2]>>

convert_event(event) ==
    LET name == convert(event.name)
    IN IF name[1] = "Err" THEN name
       ELSE LET args == convert(event.arguments)
            IN IF args[1] = "Err" THEN args
               ELSE LET arguments == ConvertArguments(args[2])
                    IN IF arguments[1] = "Err" THEN arguments
                       ELSE <<"Ok", [name |-> name[2], arguments |-> arguments[2]]>>

\* the loop over storage.entries
RECURSIVE ConvertEntries(_, _, _)
ConvertEntries(entries, prefix, storage_map) ==
    IF entries = <<>> THEN <<"Ok", storage_map>>
    ELSE LET entry_name == convert(Head(entries).name)
         IN IF entry_name[1] = "Err" THEN entry_name
            ELSE LET entry == convert_entry(EntryPrefix(prefix, entry_name[2]),
                                            Head(entries))
                 IN IF entry[1] = "Err" THEN entry
                    ELSE ConvertEntries(Tail(entries), prefix,
                                        Insert(storage_map, entry_name[2], entry[2]))

\* if let Some(storage) = module.storage { .. }
ConvertStorage(storage) ==
    IF ~IsSome(storage) THEN <<"Ok", EmptyMap>>
    ELSE LET st == convert(Unwrap(storage))
         IN IF st[1] = "Err" THEN st
            ELSE LET prefix == convert(st[2].prefix)
                 IN IF prefix[1] = "Err" THEN prefix
                    ELSE LET entries == convert(st[2].entries)
                         IN IF entries[1] = "Err" THEN entries
                            ELSE ConvertEntries(entries[2], prefix[2], EmptyMap)

\* variant: functions are numbered from one
RECURSIVE ConvertCalls_FromOne(_, _, _)
ConvertCalls_FromOne(calls, index, call_map) ==
    IF calls = <<>> THEN <<"Ok", call_map>>
    ELSE LET name == convert(Head(calls).name)
         IN IF name[1] = "Err" THEN name
            ELSE ConvertCalls_FromOne(Tail(calls), index + 1,
                                      Insert(call_map, name[2], <<(index + 1) % 256>>))

\* for (index, call) in calls.into_iter().enumerate(): name -> vec![index as u8]
RECURSIVE ConvertCalls(_, _, _)
ConvertCalls(calls, index, call_map) ==
    IF calls = <<>> THEN <<"Ok", call_map>>
    ELSE LET name == convert(Head(calls).name)
         IN IF name[1] = "Err" THEN name
            ELSE ConvertCalls(Tail(calls), index + 1,
                              Insert(call_map, name[2], <<index % 256>>))

\* for (index, event) in events.into_iter().enumerate(): index as u8 -> event
RECURSIVE ConvertEvents(_, _, _)
ConvertEvents(events, index, event_map) ==
    IF events = <<>> THEN <<"Ok", event_map>>
    ELSE LET event == convert_event(Head(events))
         IN IF event[1] = "Err" THEN event
            ELSE ConvertEvents(Tail(events), index + 1,
                               Insert(event_map, index % 256, event[2]))

\* if let Some(calls) = module.calls { for .. in convert(calls)? .. }
ConvertCallSection(calls) ==
    IF ~IsSome(calls) THEN <<"Ok", EmptyMap>>
    ELSE LET list == convert(Unwrap(calls))
         IN IF list[1] = "Err" THEN list ELSE ConvertCalls(list[2], 0, EmptyMap)

\* if let Some(events) = module.event { for .. in convert(events)? .. }
ConvertEventSection(events) ==
    IF ~IsSome(events) THEN <<"Ok", EmptyMap>>
    ELSE LET list == convert(Unwrap(events))
         IN IF list[1] = "Err" THEN list ELSE ConvertEvents(list[2], 0, EmptyMap)

convert_module(index_for_calls, index_for_events, module) ==
    LET storage_map == ConvertStorage(module.storage)
    IN IF storage_map[1] = "Err" THEN storage_map
       ELSE LET call_map == ConvertCallSection(module.calls)
            IN IF call_map[1] = "Err" THEN call_map
               ELSE LET event_map == ConvertEventSection(module.event)
                    IN IF event_map[1] = "Err" THEN event_map
                       ELSE LET name == convert(module.name)
                            IN IF name[1] = "Err" THEN name
                               ELSE <<"Ok", [index_for_calls |-> index_for_calls,
                                             index_for_events |-> index_for_events,
                                             name |-> name[2],
                                             storage |-> storage_map[2],
                                             calls |-> call_map[2],
                                             events |-> event_map[2]]>>

\* variant: one counter numbers the modules with calls and those with events
RECURSIVE ConvertModules_OneCounter(_, _, _, _)
ConvertModules_OneCounter(modules, call_index, event_index, map) ==
    IF modules = <<>> THEN <<"Ok", [modules |-> map]>>
    ELSE LET module == Head(modules)
             module_name == convert(module.name)
             index_for_calls == IF IsSome(module.calls) THEN Some(call_index) ELSE None
             index_for_events == IF IsSome(module.event) THEN Some(call_index) ELSE None
             next_call == IF IsSome(module.calls) \/ IsSome(module.event)
                          THEN call_index + 1 ELSE call_index
         IN IF module_name[1] = "Err" THEN module_name
            ELSE LET module_metadata ==
                         convert_module(index_for_calls, index_for_events, module)
                 IN IF module_metadata[1] = "Err" THEN module_metadata
                    ELSE ConvertModules_OneCounter(Tail(modules), next_call, event_index,
                              Insert(map, module_name[2], module_metadata[2]))

\* variant: event_index is never advanced
RECURSIVE ConvertModules_EventIndexKept(_, _, _, _)
ConvertModules_EventIndexKept(modules, call_index, event_index, map) ==
    IF modules = <<>> THEN <<"Ok", [modules |-> map]>>
    ELSE LET module == Head(modules)
             module_name == convert(module.name)
             index_for_calls == IF IsSome(module.calls) THEN Some(call_index) ELSE None
             index_for_events == IF IsSome(module.event) THEN Some(event_index) ELSE None
             next_call == IF IsSome(module.calls) THEN call_index + 1 ELSE call_index
         IN IF module_name[1] = "Err" THEN module_name
            ELSE LET module_metadata ==
                         convert_module(index_for_calls, index_for_events, module)
                 IN IF module_metadata[1] = "Err" THEN module_metadata
                    ELSE ConvertModules_EventIndexKept(Tail(modules), next_call, event_index,
                              Insert(map, module_name[2], module_metadata[2]))

\* the loop of try_from over the modules, in declaration order, with its two
\* counters; call_index and event_index are u8 and stay far below 256 here
RECURSIVE ConvertModules(_, _, _, _)
ConvertModules(modules, call_index, event_index, map) ==
    IF modules = <<>> THEN <<"Ok", [modules |-> map]>>
    ELSE LET module == Head(modules)
             module_name == convert(module.name)
             index_for_calls == IF IsSome(module.calls) THEN Some(call_index) ELSE None
             index_for_events == IF IsSome(module.event) THEN Some(event_index) ELSE None
             next_call == IF IsSome(module.calls) THEN call_index + 1 ELSE call_index
             next_event == IF IsSome(module.event) THEN event_index + 1 ELSE event_index
         IN IF module_name[1] = "Err" THEN module_name
            ELSE LET module_metadata ==
                         convert_module(index_for_calls, index_for_events, module)
                 IN IF module_metadata[1] = "Err" THEN module_metadata
                    ELSE ConvertModules(Tail(modules), next_call, next_event,
                                        Insert(map, module_name[2], module_metadata[2]))

\* variant: the version is checked before the prefix
try_from_VersionFirst(metadata) ==
    IF metadata.version # "V8" THEN <<"Err", <<"InvalidVersion">>>>
    ELSE IF metadata.prefix # META_RESERVED THEN <<"Err", <<"InvalidPrefix">>>>
    ELSE LET modules == convert(metadata.modules)
         IN IF modules[1] = "Err" THEN modules
            ELSE ConvertModules(modules[2], 0, 0, EmptyMap)

\* variant: the version before the supported one is accepted as well
try_from_AlsoOlder(metadata) ==
    IF metadata.prefix # META_RESERVED THEN <<"Err", <<"InvalidPrefix">>>>
    ELSE IF metadata.version \notin {"V7", "V8"} THEN <<"Err", <<"InvalidVersion">>>>
    ELSE LET modules == convert(metadata.modules)
         IN IF modules[1] = "Err" THEN modules
            ELSE ConvertModules(modules[2], 0, 0, EmptyMap)

\* impl TryFrom<RuntimeMetadataPrefixed> for Metadata
try_from(metadata) ==
    IF metadata.prefix # META_RESERVED THEN <<"Err", <<"InvalidPrefix">>>>
    ELSE IF metadata.version # "V8" THEN <<"Err", <<"InvalidVersion">>>>
    ELSE LET modules == convert(metadata.modules)
         IN IF modules[1] = "Err" THEN modules
            ELSE ConvertModules(modules[2], 0, 0, EmptyMap)

\* Metadata::module
Metadata_module(metadata, name) ==
    IF name \in DOMAIN metadata.modules
    THEN <<"Ok", metadata.modules[name]>>
    ELSE <<"Err", <<"ModuleNotFound", name>>>>

\* Metadata::module_name: values() of the HashMap come in no fixed order and
\* find stops at the first match, so any matching module may be the result
Metadata_module_name(self, module_index) ==
    LET matches == {name \in DOMAIN self.modules :
                       self.modules[name].index_for_events = Some(module_index)}
    IN IF matches = {} THEN {<<"Err", <<"EventNotFound", module_index>>>>}
       ELSE {<<"Ok", self.modules[name]>> : name \in matches}

\* parity_scale_codec::Encode for the parameters of a call: a u8 is its
\* byte, a u16 its two bytes, low byte first, () is nothing, a pair is the
\* encodings of its two members one after the other
RECURSIVE encode(_)
encode(params) ==
    CASE params[1] = "unit" -> <<>>
      [] params[1] = "u8" -> <<params[2] % 256>>
      [] params[1] = "u16" -> <<params[2] % 256, (params[2] \div 256) % 256>>
      [] params[1] = "pair" -> encode(params[2]) \o encode(params[3])

\* ModuleMetadata::call
ModuleMetadata_call(self, function, params) ==
    IF ~IsSome(self.index_for_calls)
    THEN <<"Err", <<"IndexNotFound", self.name>>>>
    ELSE IF function \notin DOMAIN self.calls
    THEN <<"Err", <<"CallNotFound", function>>>>
    ELSE <<"Ok", <<Unwrap(self.index_for_calls)>> \o self.calls[function]
                 \o encode(params)>>

---------------------------------------------------------------------------
(* Metadata::try_from on its own *)

ModuleNames == {"M1", "M2", "M3"}
FunctionNames == {"f", "g", "h"}

\* an event with one argument, of type u8
EventSections ==
    {None,
     Some(Decoded(<<[name |-> Decoded("E"), arguments |-> Decoded(<<<<"u", "8">>>>)]>>))}

\* the prefix a storage section declares: the name of its module, or another
StoragePrefixes == {"M1", "P"}
EntryNames == {"e", "d"}

\* a plain storage entry
StorageEntry(name) ==
    [name |-> Decoded(name), modifier |-> "Default", ty |-> <<"Plain", "u8">>,
     default |-> Decoded(<<0>>)]

\* no storage section, or one with a prefix and some entries
StorageSections ==
    {None} \cup
    {Some(Decoded([prefix |-> Decoded(prefix),
                   entries |-> Decoded([k \in 1..Len(names) |-> StorageEntry(names[k])])])) :
        prefix \in StoragePrefixes, names \in SeqsUpTo(EntryNames, MaxEntries)}

FunctionList(names) == [k \in 1..Len(names) |-> [name |-> Decoded(names[k])]]

\* the modules of the metadata given to try_from: any of the names, with or
\* without calls, with or without events
MetaModules ==
    [name : {Decoded(n) : n \in ModuleNames},
     storage : {None},
     calls : {None, Some(Decoded(FunctionList(<<"g", "f">>)))},
     event : EventSections]

MetaInputs ==
    [prefix : {META_RESERVED, "atem"},
     version : {"V0", "V7", "V8"},
     modules : {NotDecoded} \cup {Decoded(ms) : ms \in SeqsUpTo(MetaModules, MaxModules)}]

InitMeta ==
    /\ InitPipeline
    /\ SignIdle
    /\ ModuleIdle
    /\ KeyIdle
    /\ ArgIdle
    /\ metaIn \in {Some(i) : i \in MetaInputs}
    /\ metaOut = None
    /\ lookup = None

ParseMetadata ==
    /\ IsSome(metaIn)
    /\ metaOut = None
    /\ metaOut' = Some(try_from(Unwrap(metaIn)))
    /\ UNCHANGED <<call, fanVars, pc, submitted, ext_hash, statusVars, bh, blockVars,
                   eventVars, result, error, ownVars, sigVars, metaIn, modIn, modOut,
                   keyVars, argVars, lookup>>

\* module_name is asked for the module of an event index
FindModule ==
    /\ IsSome(metaOut)
    /\ Unwrap(metaOut)[1] = "Ok"
    /\ lookup = None
    /\ \E module_index \in 0..MaxModules :
          \E found \in Metadata_module_name(Unwrap(metaOut)[2], module_index) :
             lookup' = Some([module_index |-> module_index, found |-> found])
    /\ UNCHANGED <<call, fanVars, pc, submitted, ext_hash, statusVars, bh, blockVars,
                   eventVars, result, error, ownVars, sigVars, metaIn, metaOut, modIn,
                   modOut, keyVars, argVars>>

NextMeta == ParseMetadata \/ FindModule

SpecMeta == InitMeta /\ [][NextMeta]_vars

---------------------------------------------------------------------------
(* convert_module and ModuleMetadata::call on their own *)

\* lists of distinct function names, as a module declares them
CallLists ==
    {l \in SeqsUpTo(FunctionNames, MaxCalls) : \A i, j \in 1..Len(l) : l[i] = l[j] => i = j}

CallSections == {None, Some(NotDecoded)} \cup {Some(Decoded(FunctionList(l))) : l \in CallLists}

RawModules ==
    [name : {Decoded("M1")}, storage : StorageSections, calls : CallSections,
     event : EventSections]

Params ==
    {<<"unit">>, <<"u8", 7>>, <<"u16", 258>>, <<"pair", <<"u8", 1>>, <<"u16", 513>>>>}

\* a module as try_from hands it to convert_module, being the module number
\* ordinal among those with calls and among those with events, and the call
\* asked of it
ModuleInputs ==
    [module : RawModules, ordinal : 0..(MaxModules - 1),
     function : FunctionNames, params : Params]

InitModule ==
    /\ InitPipeline
    /\ SignIdle
    /\ MetaIdle
    /\ KeyIdle
    /\ ArgIdle
    /\ modIn \in {Some(i) : i \in ModuleInputs}
    /\ modOut = None

\* the module is converted, and the call is built from the converted module
CallModule ==
    /\ IsSome(modIn)
    /\ modOut = None
    /\ LET in == Unwrap(modIn)
           converted ==
               convert_module(IF IsSome(in.module.calls) THEN Some(in.ordinal) ELSE None,
                              IF IsSome(in.module.event) THEN Some(in.ordinal) ELSE None,
                              in.module)
       IN modOut' = Some([module |-> converted,
                          call |-> IF converted[1] = "Err" THEN None
                                   ELSE Some(ModuleMetadata_call(converted[2], in.function,
                                                                 in.params))])
    /\ UNCHANGED <<call, fanVars, pc, submitted, ext_hash, statusVars, bh, blockVars,
                   eventVars, result, error, ownVars, sigVars, metaIn, metaOut, modIn,
                   keyVars, argVars, lookup>>

NextModule == CallModule

SpecModule == InitModule /\ [][NextModule]_vars

---------------------------------------------------------------------------
(* metadata.rs: StorageMetadata::get_map and StorageMap::key *)

\* StorageHasher
StorageHashers == {"Blake2_128", "Blake2_256", "Twox128", "Twox256", "Twox64Concat"}

\* substrate_primitives hashing. A digest is its 8-byte words; a word is known
\* by the function, the digest length or seed, its place and the bytes hashed.
\* blake2_128 and blake2_256 are BLAKE2b with 16 and 32 bytes of output;
\* twox_64, twox_128 and twox_256 are XXH64 of the bytes under the seeds
\* 0, 0..1 and 0..3, one after the other.
Blake2b(bytes, len) == [w \in 1..(len \div 8) |-> <<"blake2b", len, w, bytes>>]
XxHash64(bytes, seeds) == [w \in 1..seeds |-> <<"xxh64", w - 1, bytes>>]
blake2_128(bytes) == Blake2b(bytes, 16)
twox_64(bytes) == XxHash64(bytes, 1)
twox_128(bytes) == XxHash64(bytes, 2)
twox_256(bytes) == XxHash64(bytes, 4)
\* [u8; 32]::to_vec of a blake2_256 digest
to_vec(digest) == Blake2b(digest.blake2_256, digest.len)

\* str::as_bytes: the UTF-8 bytes of the string, kept as one run
as_bytes(s) == <<s>>

\* Decode::decode of the default value, a u8: its first byte, if there is one
decode(bytes) == IF Len(bytes) >= 1 THEN Some(bytes[1]) ELSE None

\* StorageMetadata::get_map
get_map(self) ==
    IF self.ty[1] = "Map"
    THEN LET default == decode(self.default)
         IN IF ~IsSome(default) THEN <<"Err", <<"MapValueTypeError">>>>
            ELSE <<"Ok", [prefix |-> as_bytes(self.prefix), hasher |-> self.ty[2],
                          default |-> Unwrap(default)]>>
    ELSE <<"Err", <<"StorageTypeError">>>>

\* variant: the 256-bit arm calls the 128-bit function
StorageMap_key_Twox128For256(self, key) ==
    LET bytes == self.prefix \o encode(key)
    IN [StorageKey |->
           CASE self.hasher = "Blake2_128" -> blake2_128(bytes)
             [] self.hasher = "Blake2_256" -> to_vec(blake2_256(bytes))
             [] self.hasher = "Twox128" -> twox_128(bytes)
             [] self.hasher = "Twox256" -> twox_128(bytes)
             [] self.hasher = "Twox64Concat" -> twox_64(bytes)]

\* StorageMap::key
StorageMap_key(self, key) ==
    LET bytes == self.prefix \o encode(key)
    IN [StorageKey |->
           CASE self.hasher = "Blake2_128" -> blake2_128(bytes)
             [] self.hasher = "Blake2_256" -> to_vec(blake2_256(bytes))
             [] self.hasher = "Twox128" -> twox_128(bytes)
             [] self.hasher = "Twox256" -> twox_256(bytes)
             [] self.hasher = "Twox64Concat" -> twox_64(bytes)]

---------------------------------------------------------------------------
(* StorageMap::key on its own *)

\* the type of a storage entry: plain, or a map under one of the hashers
EntryTypes == {<<"Plain", "u8">>} \cup {<<"Map", hasher>> : hasher \in StorageHashers}

\* the prefix and the default bytes of a storage entry, and the key looked up
KeyInputs ==
    [prefix : {"P e", "P d", "M1 e"}, default : {<<>>, <<0>>, <<7, 0>>},
     key : Params \ {<<"unit">>}]

InitKey ==
    /\ InitPipeline
    /\ SignIdle
    /\ MetaIdle
    /\ ModuleIdle
    /\ ArgIdle
    /\ keyIn \in {Some(i) : i \in KeyInputs}
    /\ keyOut = EmptyMap

\* the entry is declared with one more type, and the key is computed under it
KeyUnder(ty) ==
    /\ IsSome(keyIn)
    /\ ty \notin DOMAIN keyOut
    /\ LET in == Unwrap(keyIn)
           entry == [prefix |-> in.prefix, modifier |-> "Default", ty |-> ty,
                     default |-> in.default]
           map == get_map(entry)
       IN keyOut' = Insert(keyOut, ty,
                           IF map[1] = "Err" THEN map
                           ELSE <<"Ok", StorageMap_key(map[2], in.key)>>)
    /\ UNCHANGED <<call, fanVars, pc, submitted, ext_hash, statusVars, bh, blockVars,
                   eventVars, result, error, ownVars, sigVars, metaIn, metaOut, modIn,
                   modOut, keyIn, argVars, lookup>>

NextKey == \E ty \in EntryTypes : KeyUnder(ty)

SpecKey == InitKey /\ [][NextKey]_vars

---------------------------------------------------------------------------
(* EventArg::from_str and EventArg::primitives on their own *)

\* names of primitive types
PrimitiveNames == {<<"u", "8">>, <<"b", "o", "o", "l">>}

\* the EventArg values one level above those of a set
Primitives == {<<"Primitive", name>> : name \in PrimitiveNames}
VecsOf(args) == {<<"Vec", arg>> : arg \in args}
TuplesOf(args) == {<<"Tuple", members>> : members \in SeqsUpTo(args, MaxTupleLen) \ {<<>>}}

\* the type descriptors given: primitives, vectors and tuples of them, vectors
\* and tuples of those, and vectors of all
FlatArgs == Primitives \cup VecsOf(Primitives) \cup TuplesOf(Primitives)
NestedArgs == Primitives \cup VecsOf(FlatArgs) \cup TuplesOf(FlatArgs)
EventArgs == NestedArgs \cup VecsOf(NestedArgs)

\* the textual form of a type descriptor, its tuples written with the given
\* separator
RECURSIVE Text(_, _), TextOfMembers(_, _)
Text(arg, separator) ==
    CASE arg[1] = "Primitive" -> arg[2]
      [] arg[1] = "Vec" -> <<"V", "e", "c", "<">> \o Text(arg[2], separator) \o <<">">>
      [] arg[1] = "Tuple" -> <<"(">> \o TextOfMembers(arg[2], separator) \o <<")">>

TextOfMembers(members, separator) ==
    IF Len(members) = 1 THEN Text(Head(members), separator)
    ELSE Text(Head(members), separator) \o separator
             \o TextOfMembers(Tail(members), separator)

Separators == {<<",">>, <<",", " ">>}

\* texts that lack a closing delimiter, at the top or inside another type
Unclosed ==
    {SubSeq(Text(arg, <<",">>), 1, Len(Text(arg, <<",">>)) - 1) :
        arg \in FlatArgs \ Primitives}
    \cup {<<"V", "e", "c", "<", "(", "u", "8", ",", "b", "o", "o", "l", ")">>,
          <<"(", "V", "e", "c", "<", "u", "8", ">">>}
UnclosedInside ==
    {<<"V", "e", "c", "<">> \o text \o <<">">> : text \in Unclosed}
    \cup {<<"(">> \o text \o <<",", "u", "8", ")">> : text \in Unclosed}
    \cup {<<"(", "u", "8", ",", " ">> \o text \o <<")">> : text \in Unclosed}

\* texts of none of the two shapes: Option<u8>, [u8;4], Box<(u8)>, vec<u8>,
\* Vec, u8), u8>, a blank before Vec<u8> and before (u8), and the empty text
OtherTexts ==
    {<<"O", "p", "t", "i", "o", "n", "<", "u", "8", ">">>,
     <<"[", "u", "8", ";", "4", "]">>,
     <<"B", "o", "x", "<", "(", "u", "8", ")", ">">>,
     <<"v", "e", "c", "<", "u", "8", ">">>,
     <<"V", "e", "c">>,
     <<"u", "8", ")">>,
     <<"u", "8", ">">>,
     <<" ", "V", "e", "c", "<", "u", "8", ">">>,
     <<" ", "(", "u", "8", ")">>,
     <<>>}

\* a text, and the type descriptor it was written from, if any
ArgInputs ==
    {[text |-> Text(arg, separator), arg |-> Some(arg)] :
        arg \in EventArgs, separator \in Separators}
    \cup {[text |-> text, arg |-> None] :
            text \in Unclosed \cup UnclosedInside \cup OtherTexts}

InitArg ==
    /\ InitPipeline
    /\ SignIdle
    /\ MetaIdle
    /\ ModuleIdle
    /\ KeyIdle
    /\ argIn \in {Some(i) : i \in ArgInputs}
    /\ argOut = [parsed |-> None, primitives |-> None]

\* text.parse::<EventArg>()
ParseArg ==
    /\ IsSome(argIn)
    /\ argOut.parsed = None
    /\ argOut' = [argOut EXCEPT !.parsed = Some(from_str(Unwrap(argIn).text))]
    /\ UNCHANGED <<call, fanVars, pc, submitted, ext_hash, statusVars, bh, blockVars,
                   eventVars, result, error, ownVars, sigVars, metaIn, metaOut, modIn,
                   modOut, keyVars, argIn, lookup>>

\* arg.primitives() on the type descriptor itself
FlattenArg ==
    /\ IsSome(argIn)
    /\ IsSome(Unwrap(argIn).arg)
    /\ argOut.primitives = None
    /\ argOut' = [argOut EXCEPT !.primitives = Some(primitives(Unwrap(Unwrap(argIn).arg)))]
    /\ UNCHANGED <<call, fanVars, pc, submitted, ext_hash, statusVars, bh, blockVars,
                   eventVars, result, error, ownVars, sigVars, metaIn, metaOut, modIn,
                   modOut, keyVars, argIn, lookup>>

NextArg == ParseArg \/ FlattenArg

SpecArg == InitArg /\ [][NextArg]_vars

---------------------------------------------------------------------------
(* Properties of the submission pipeline *)

Last(seq) == seq[Len(seq)]

\* the records of a log tagged ApplyExtrinsic(p), as their events, in log order
RECURSIVE EventsAt(_, _)
EventsAt(records, p) ==
    IF records = <<>> THEN <<>>
    ELSE (IF Head(records).phase = <<"ApplyExtrinsic", p>>
          THEN <<Head(records).event>> ELSE <<>>) \o EventsAt(Tail(records), p)

MatchedRecords == IF IsSome(block_events) THEN Unwrap(block_events).records ELSE <<>>

\* C1: a successful submission found at position p of block B returns exactly
\* the records of B's change-set tagged ApplyExtrinsic(p), in log order; no
\* record of another position or of another phase is included.
C1_EventsOfPosition ==
    pc = "done" =>
        /\ IsSome(ext_index)
        /\ hash_of(Unwrap(signed_block).extrinsics[Unwrap(ext_index) + 1]) = Unwrap(ext_hash)
        /\ IsSome(block_events) => Unwrap(block_events).block = Unwrap(bh)
        /\ Unwrap(result).events = EventsAt(MatchedRecords, Unwrap(ext_index))

\* position 1 of a block, a log with a record of position 0 and one of
\* position 1: only the second is returned
C1_Witness ==
    /\ pc = "done"
    /\ ext_index = Some(1)
    /\ Len(MatchedRecords) = 2
    /\ MatchedRecords[1].phase = <<"ApplyExtrinsic", 0>>
    /\ MatchedRecords[2].phase = <<"ApplyExtrinsic", 1>>
    /\ Unwrap(result).events = <<2>>

UnrelatedSet(item) == item[1] = "Set" /\ item[2] # Unwrap(bh)
OnlyUnrelatedSeen == \A k \in 1..Len(eventsSeen) : UnrelatedSet(eventsSeen[k])

\* C2: change-sets of other blocks are discarded: they raise no error, give
\* no event to the result, and the wait goes on, however many come first.
C2_UnrelatedDiscarded ==
    eventsSeen # <<>> =>
        /\ OnlyUnrelatedSeen =>
              IF ~IsSome(ext_index)
              THEN pc = "failed" /\ error = Some(MsgError("Failed to find Extrinsic"))
              ELSE pc = "waiting_events" /\ error = None /\ result = None
        /\ IsSome(block_events) =>
              /\ Unwrap(block_events).block = Unwrap(bh)
              /\ Last(eventsSeen) = <<"Set", Unwrap(bh)>>
              /\ \A k \in 1..(Len(eventsSeen) - 1) : UnrelatedSet(eventsSeen[k])

\* a change-set of another block was read, then the one of the block
C2_Witness ==
    /\ pc = "done"
    /\ Len(eventsSeen) = 2
    /\ UnrelatedSet(eventsSeen[1])
    /\ Unwrap(result).events # <<>>

TransientStatus(item) == item[1] \in {"Future", "Ready", "Broadcast"}

\* index of the first item read that is no transient status, 0 if none
FirstDecisive ==
    LET ks == {k \in 1..Len(statusSeen) : ~TransientStatus(statusSeen[k])}
    IN IF ks = {} THEN 0 ELSE CHOOSE k \in ks : \A j \in ks : k <= j

\* C3: submit_and_watch succeeds exactly when the first status that is not
\* Future, Ready or Broadcast is Finalized(b), and then yields b; transient
\* statuses before it change nothing.
C3_FinalizedDecides ==
    /\ IsSome(bh) <=> (FirstDecisive > 0 /\ statusSeen[FirstDecisive][1] = "Finalized")
    /\ IsSome(bh) => Unwrap(bh) = statusSeen[FirstDecisive][2]
    /\ (FirstDecisive = 0 /\ statusSeen # <<>>) => pc = "watching"

\* a transient status was read before Finalized
C3_Witness ==
    /\ IsSome(bh)
    /\ Len(statusSeen) = 2
    /\ TransientStatus(statusSeen[1])

FailureName(status) ==
    CASE status = "Usurped" -> "Extrinsic Usurped"
      [] status = "Dropped" -> "Extrinsic Dropped"
      [] status = "Invalid" -> "Extrinsic Invalid"

\* C4: when the first non-transient status is Usurped, Dropped or Invalid the
\* submission fails with the error naming that status, and neither the block
\* is fetched nor any change-set read.
C4_TerminalFailure ==
    (FirstDecisive > 0 /\ statusSeen[FirstDecisive][1] \in {"Usurped", "Dropped", "Invalid"}) =>
        /\ pc = "failed"
        /\ error = Some(MsgError(FailureName(statusSeen[FirstDecisive][1])))
        /\ result = None
        /\ bh = None
        /\ signed_block = None
        /\ eventsSeen = <<>>

\* Broadcast, then Dropped
C4_Witness ==
    /\ statusSeen = <<<<"Broadcast">>, <<"Dropped">>>>
    /\ pc = "failed"

\* C5: a status stream that ends having given only transient statuses (or
\* nothing) fails the submission with "Stream terminated", never succeeds.
C5_StreamTerminated ==
    (FirstDecisive > 0 /\ statusSeen[FirstDecisive][1] = "End") =>
        /\ pc = "failed"
        /\ error = Some(MsgError("Stream terminated"))
        /\ result = None
        /\ bh = None

\* the stream ended after one transient status
C5_Witness ==
    /\ pc = "failed"
    /\ Len(statusSeen) = 2
    /\ TransientStatus(statusSeen[1])
    /\ statusSeen[2] = EndOfStream

TerminalStatus(item) == item[1] \in {"Finalized", "Usurped", "Dropped", "Invalid"}

\* C6: nothing is read from the status stream after the first terminal
\* status: a terminal status is the last item read, and the outcome is the
\* one it gave.
C6_StopsAtTerminal ==
    /\ \A k \in 1..(Len(statusSeen) - 1) : ~TerminalStatus(statusSeen[k])
    /\ (statusSeen # <<>> /\ TerminalStatus(Last(statusSeen))) =>
          /\ pc # "watching"
          /\ IsSome(bh) <=> Last(statusSeen)[1] = "Finalized"

\* a terminal status was read and a later status was never read
C6_Witness ==
    /\ statusSeen # <<>>
    /\ TerminalStatus(Last(statusSeen))
    /\ statusLost > 0

NonceFailed == nonceResp[1] = "Err"
GenesisFailed == genesisResp[1] = "Err" \/ (genesisResp[1] = "Ok" /\ ~IsSome(genesisResp[2]))
SubscribeFailed == eventsResp[1] = "Err"
FanOutSucceeded ==
    /\ nonceResp[1] = "Ok"
    /\ genesisResp[1] = "Ok" /\ IsSome(genesisResp[2])
    /\ eventsResp[1] = "Ok"
FanOutFailures ==
    (IF NonceFailed THEN {RpcError("nonce")} ELSE {})
    \cup (IF genesisResp[1] = "Err" THEN {RpcError("genesis")} ELSE {})
    \cup (IF GenesisFailed /\ genesisResp[1] = "Ok"
          THEN {MsgError("Genesis hash not found")} ELSE {})
    \cup (IF SubscribeFailed THEN {RpcError("subscribe")} ELSE {})

\* C7: the transaction is built and submitted only after the nonce fetch, the
\* genesis fetch and the subscription all succeeded; if one of them fails the
\* submission fails with the failure of one of them and nothing is submitted.
C7_JoinOnThree ==
    /\ IsSome(submitted) => FanOutSucceeded
    /\ pc # "fanout" => (FanOutSucceeded \/ FanOutFailures # {})
    /\ FanOutFailures # {} =>
          /\ submitted = None
          /\ ext_hash = None
          /\ pc \in {"fanout", "failed"}
          /\ pc = "failed" => Unwrap(error) \in FanOutFailures

\* nonce and genesis answered well, the subscription failed
C7_Witness ==
    /\ nonceResp[1] = "Ok"
    /\ genesisResp[1] = "Ok" /\ IsSome(genesisResp[2])
    /\ SubscribeFailed
    /\ pc = "failed"
    /\ error = Some(RpcError("subscribe"))
    /\ submitted = None

SignedPayload ==
    LET in == Unwrap(sigIn)
    IN EncodePayload([function |-> in.function, extra |-> Extra(in.index, 0),
                      genesis_hash |-> in.genesis_hash])

\* C8: the signature is over the blake2_256 hash of the serialized payload
\* exactly when that is longer than 256 bytes, over the raw bytes otherwise.
C8_SignsHashAbove256 ==
    IsSome(sigOut) =>
        /\ Unwrap(sigOut).signature.by = Unwrap(sigIn).signer
        /\ Unwrap(sigOut).signature.over =
              IF SignedPayload.len > 256 THEN blake2_256(SignedPayload) ELSE SignedPayload

\* a payload of 257 bytes signed over its hash
C8_Witness ==
    /\ IsSome(sigOut)
    /\ SignedPayload.len = 257
    /\ Unwrap(sigOut).signature.over = blake2_256(SignedPayload)

NoMatchInBlock ==
    \A i \in 1..Len(Unwrap(signed_block).extrinsics) :
        hash_of(Unwrap(signed_block).extrinsics[i]) # Unwrap(ext_hash)

FirstMatchInBlock ==
    IsSome(ext_index) =>
        LET xs == Unwrap(signed_block).extrinsics
            p == Unwrap(ext_index)
        IN /\ p + 1 \in 1..Len(xs)
           /\ hash_of(xs[p + 1]) = Unwrap(ext_hash)
           /\ \A i \in 1..p : hash_of(xs[i]) # Unwrap(ext_hash)

\* C9 as stated: the position is the index of the first entry of the block
\* whose hash is the one computed before sending; without a match the
\* submission fails with the not-found error, the matching change-set
\* delivered or not.
C9_NotFoundWhenNoMatch ==
    IsSome(signed_block) =>
        /\ FirstMatchInBlock
        /\ IsSome(ext_index) <=> ~NoMatchInBlock
        /\ NoMatchInBlock =>
              /\ pc = "failed"
              /\ error = Some(MsgError("Failed to find Extrinsic"))

\* C9 amended: ... without a match the submission fails at once, with the
\* not-found error unless the poll that examined the block read a transport
\* error from the event subscription first, which is then the failure.
C9_NotFoundUnlessStreamError ==
    IsSome(signed_block) =>
        /\ FirstMatchInBlock
        /\ IsSome(ext_index) <=> ~NoMatchInBlock
        /\ NoMatchInBlock =>
              /\ pc = "failed"
              /\ error = IF eventsSeen # <<>> /\ Last(eventsSeen)[1] = "Err"
                         THEN Some(RpcError("event stream"))
                         ELSE Some(MsgError("Failed to find Extrinsic"))

\* a block without the extrinsic, no change-set of the block delivered yet
C9_Witness ==
    /\ IsSome(signed_block)
    /\ Len(Unwrap(signed_block).extrinsics) > 0
    /\ NoMatchInBlock
    /\ \A k \in 1..Len(eventsSeen) : UnrelatedSet(eventsSeen[k])
    /\ error = Some(MsgError("Failed to find Extrinsic"))

\* C10: a successful submission returns the block of the Finalized status,
\* the hash of the extrinsic as computed before sending, and events that all
\* come from a change-set reported for that block.
C10_ResultTriple ==
    pc = "done" =>
        /\ Last(statusSeen)[1] = "Finalized"
        /\ Unwrap(result).block = Last(statusSeen)[2]
        /\ Unwrap(result).extrinsic = hash_of(Unwrap(submitted))
        /\ IsSome(block_events) =>
              /\ Unwrap(block_events).block = Unwrap(result).block
              /\ Last(eventsSeen) = <<"Set", Unwrap(result).block>>
        /\ \A k \in 1..Len(Unwrap(result).events) :
              \E r \in 1..Len(MatchedRecords) :
                  MatchedRecords[r].event = Unwrap(result).events[k]

\* finalized in B2, with events of B2's change-set
C10_Witness ==
    /\ pc = "done"
    /\ Unwrap(result).block = "B2"
    /\ Unwrap(result).events # <<>>
    /\ Last(eventsSeen) = <<"Set", "B2">>

\* C11: within one submission every request (nonce read, genesis read,
\* subscribe, submit-and-watch, block fetch) is issued at most once, whether
\* the submission succeeds, fails or is cancelled; the submit request is the one
\* that carries the extrinsic and the block request the one for the finalized
\* block.
C11_NoRetry ==
    /\ \A r \in Requests : sent[r] <= 1
    /\ sent["watch"] = 1 <=> IsSome(submitted)
    /\ sent["block"] = 1 <=> IsSome(bh)

\* a submission that failed on the block request after issuing all five
C11_Witness ==
    /\ pc = "failed"
    /\ error = Some(RpcError("block"))
    /\ \A r \in Requests : sent[r] = 1

\* C12: once a submission has terminated (it succeeded, it failed, or its
\* caller dropped it) the storage subscription stream obtained during fan-out
\* is no longer held: it was dropped with the future, nothing it delivered is
\* kept, and a stream that arrives after the end is dropped on arrival.
C12_SubscriptionReleased ==
    /\ subscription = "open" => (eventsResp[1] = "Ok" /\ ~Terminated)
    /\ (Terminated /\ eventsResp[1] = "Ok") =>
          /\ subscription = "released"
          /\ eventBuf = <<>>

\* cancelled while waiting for the change-set of the block
C12_Witness ==
    /\ cancelled
    /\ pc = "waiting_events"
    /\ subscription = "released"

\* C13 as stated: after the three-way join the event-attribute branch runs
\* beside the block-locate branch, so a change-set the subscription has
\* delivered can be consumed while the status stream is still watched and the
\* block is not yet fetched.
C13_ConcurrentBranches ==
    (pc \in {"watching", "fetching"} /\ ~cancelled /\ eventBuf # <<>>) =>
        ENABLED PollEvents

\* C13 amended: the steps after the join run in sequence; change-sets
\* delivered while the transaction is sent, the statuses are watched or the
\* block is fetched stay in the subscription, and the first is consumed only
\* when the block has been fetched.
C13_EventsAfterBlock ==
    /\ eventsSeen # <<>> => IsSome(signed_block)
    /\ IsSome(block_events) => IsSome(signed_block)
    /\ pc \in {"fanout", "submitting", "watching", "fetching"} =>
          /\ eventsSeen = <<>>
          /\ signed_block = None

\* a status was read and a change-set waits in the subscription, unread
C13_Witness ==
    /\ pc = "watching"
    /\ ~cancelled
    /\ statusSeen # <<>>
    /\ eventBuf # <<>>
    /\ eventBuf[1][1] = "Set"
    /\ eventsSeen = <<>>

\* C14: the nonce of the transaction is the value the store holds at the
\* account-nonce key, or zero when the store has no value there; a nonce
\* request that failed gives no transaction and fails the submission.
C14_NonceDefault ==
    /\ IsSome(submitted) =>
          /\ nonceResp[1] = "Ok"
          /\ Unwrap(submitted).extra.nonce =
                IF IsSome(nonceResp[2]) THEN Unwrap(nonceResp[2]) ELSE 0
    /\ nonceResp[1] = "Err" =>
          /\ submitted = None
          /\ sent["watch"] = 0
          /\ pc \in {"fanout", "failed"}
          /\ result = None

\* the store had no nonce for the account and the transaction carries zero
C14_Witness ==
    /\ IsSome(submitted)
    /\ nonceResp = <<"Ok", None>>
    /\ Unwrap(submitted).extra.nonce = 0

GenesisAbsent == genesisResp = <<"Ok", None>>
GenesisNotFound == Some(MsgError("Genesis hash not found"))

\* C15 as stated: when the node reports no block hash for height zero the
\* submission fails with the genesis-not-found error and no transaction is
\* built, signed or submitted.
C15_GenesisNotFoundAlways ==
    [][(GenesisAbsent /\ pc = "fanout" /\ pc' # "fanout") =>
          /\ pc' = "failed"
          /\ error' = GenesisNotFound
          /\ submitted' = None]_vars

\* C15 amended: when the node reports no block hash for height zero no
\* transaction is built, signed or submitted and the submission fails; the
\* error is the genesis-not-found error unless the nonce request or the
\* subscribe request failed and the join reported that failure first.
C15_GenesisNotFound ==
    GenesisAbsent =>
        /\ submitted = None
        /\ ext_hash = None
        /\ sent["watch"] = 0
        /\ result = None
        /\ pc \in {"fanout", "failed"}
        /\ pc = "failed" =>
              \/ error = GenesisNotFound
              \/ NonceFailed /\ error = Some(RpcError("nonce"))
              \/ SubscribeFailed /\ error = Some(RpcError("subscribe"))
        /\ (pc = "failed" /\ ~NonceFailed /\ ~SubscribeFailed) =>
              error = GenesisNotFound

\* nonce and subscription answered well, the genesis hash is absent
C15_Witness ==
    /\ GenesisAbsent
    /\ nonceResp[1] = "Ok"
    /\ eventsResp[1] = "Ok"
    /\ pc = "failed"
    /\ error = GenesisNotFound
    /\ submitted = None

\* C16: when, after Finalized(b), the node has no block for b, the submission
\* fails with the block-not-found error; no position is looked up and no
\* change-set is consumed from the subscription.
C16_BlockNotFound ==
    blockResp = <<"Ok", None>> =>
        /\ pc = "failed"
        /\ error = Some(MsgError("Failed to find block"))
        /\ result = None
        /\ Last(statusSeen) = <<"Finalized", Unwrap(bh)>>
        /\ signed_block = None
        /\ ext_index = None
        /\ eventsSeen = <<>>
        /\ block_events = None

\* finalized in B1, and the node has no block B1
C16_Witness ==
    /\ blockResp = <<"Ok", None>>
    /\ bh = Some("B1")
    /\ pc = "failed"
    /\ error = Some(MsgError("Failed to find block"))

\* C29: only the entry of a change-set under the events key is decoded into
\* event records; an entry under another key gives no record to the
\* attributed event list.
C29_OnlyEventsKey ==
    /\ \A k \in 1..Len(MatchedRecords) : MatchedRecords[k].event # ForeignEvent
    /\ pc = "done" =>
          \A k \in 1..Len(Unwrap(result).events) :
             Unwrap(result).events[k] # ForeignEvent

\* the storage subscription ended and the extrinsic is in the block
EndedUnanswered ==
    /\ eventsSeen # <<>>
    /\ Last(eventsSeen) = EndOfStream
    /\ IsSome(ext_index)

\* C30: when the storage subscription ends before it gave a change-set of
\* the finalized block, and the extrinsic was found in the block, the
\* submission succeeds with no events.
C30_EndGivesEmpty ==
    EndedUnanswered =>
        /\ \A k \in 1..(Len(eventsSeen) - 1) : UnrelatedSet(eventsSeen[k])
        /\ pc = "done"
        /\ error = None
        /\ block_events = None
        /\ Unwrap(result).block = Unwrap(bh)
        /\ Unwrap(result).events = <<>>

\* a change-set of another block was read, then the stream ended
C30_Witness ==
    /\ EndedUnanswered
    /\ Len(eventsSeen) = 2
    /\ UnrelatedSet(eventsSeen[1])
    /\ pc = "done"
    /\ Unwrap(result).events = <<>>

---------------------------------------------------------------------------
(* Properties of metadata.rs *)

ParsedOk == IsSome(metaOut) /\ Unwrap(metaOut)[1] = "Ok"
ParseFailedWith(tag) ==
    IsSome(metaOut) /\ Unwrap(metaOut)[1] = "Err" /\ Unwrap(metaOut)[2][1] = tag

\* the modules given to try_from, when they were decoded
GivenModules == Unwrap(metaIn).modules[2]

\* how many of the first i modules declare calls, and how many declare events
CallRank(mods, i) == Cardinality({j \in 1..i : IsSome(mods[j].calls)})
EventRank(mods, i) == Cardinality({j \in 1..i : IsSome(mods[j].event)})

\* the last module declared under a name: the one a Metadata keeps
LastNamed(mods, n) ==
    CHOOSE i \in 1..Len(mods) :
        /\ mods[i].name = Decoded(n)
        /\ \A j \in (i + 1)..Len(mods) : mods[j].name # Decoded(n)

\* C17: call ordinals and event ordinals come from two counters that start at
\* 0: a module that is the k-th, in declaration order, to declare calls has
\* call ordinal k-1, one that is the k-th to declare events has event ordinal
\* k-1, and a module without a section has no ordinal for it and does not
\* advance that counter.
C17_TwoCounters ==
    ParsedOk =>
        LET mods == GivenModules
            parsed == Unwrap(metaOut)[2].modules
        IN /\ DOMAIN parsed = {mods[i].name[2] : i \in 1..Len(mods)}
           /\ \A n \in DOMAIN parsed :
                 LET i == LastNamed(mods, n)
                 IN /\ parsed[n].index_for_calls =
                          IF IsSome(mods[i].calls) THEN Some(CallRank(mods, i) - 1)
                          ELSE None
                    /\ parsed[n].index_for_events =
                          IF IsSome(mods[i].event) THEN Some(EventRank(mods, i) - 1)
                          ELSE None

\* M1 with calls and events, M2 with calls only, M3 with events only
C17_Witness ==
    /\ ParsedOk
    /\ Len(GivenModules) = 3
    /\ \A i \in 1..3 : GivenModules[i].name = Decoded(<<"M1", "M2", "M3">>[i])
    /\ LET parsed == Unwrap(metaOut)[2].modules
       IN /\ parsed["M1"].index_for_calls = Some(0)
          /\ parsed["M1"].index_for_events = Some(0)
          /\ parsed["M2"].index_for_calls = Some(1)
          /\ parsed["M2"].index_for_events = None
          /\ parsed["M3"].index_for_calls = None
          /\ parsed["M3"].index_for_events = Some(1)

\* the functions a raw module declares, in declaration order
DeclaredFunctions(raw) ==
    IF IsSome(raw.calls) /\ Unwrap(raw.calls)[1] = "Decoded"
    THEN [k \in 1..Len(Unwrap(raw.calls)[2]) |-> Unwrap(raw.calls)[2][k].name[2]]
    ELSE <<>>

FunctionPosition(names, function) == CHOOSE k \in 1..Len(names) : names[k] = function
Declares(names, function) == \E k \in 1..Len(names) : names[k] = function

Converted == IsSome(modOut) /\ Unwrap(modOut).module[1] = "Ok"

\* C18 as stated: for a function the module declares, call gives the module's
\* call ordinal, the function's zero-based position, then encode(args), and
\* nothing else; for a function the module does not know it fails with
\* CallNotFound.
C18_CallBytesOrCallNotFound ==
    Converted =>
        LET in == Unwrap(modIn)
            names == DeclaredFunctions(in.module)
            out == Unwrap(Unwrap(modOut).call)
        IN IF Declares(names, in.function)
           THEN out = <<"Ok", <<in.ordinal, FunctionPosition(names, in.function) - 1>>
                              \o encode(in.params)>>
           ELSE out = <<"Err", <<"CallNotFound", in.function>>>>

\* C18 amended: ... for a function the module does not know it fails with
\* CallNotFound when the module declares calls, and with IndexNotFound when
\* the module declares no calls at all.
C18_CallBytes ==
    Converted =>
        LET in == Unwrap(modIn)
            names == DeclaredFunctions(in.module)
            out == Unwrap(Unwrap(modOut).call)
        IN IF Declares(names, in.function)
           THEN out = <<"Ok", <<in.ordinal, FunctionPosition(names, in.function) - 1>>
                              \o encode(in.params)>>
           ELSE IF IsSome(in.module.calls)
           THEN out = <<"Err", <<"CallNotFound", in.function>>>>
           ELSE out = <<"Err", <<"IndexNotFound", "M1">>>>

\* the third module with calls, its second function, a u8 and a u16
C18_Witness ==
    /\ Converted
    /\ Unwrap(modIn).ordinal = 2
    /\ Unwrap(modIn).function = "f"
    /\ DeclaredFunctions(Unwrap(modIn).module) = <<"g", "f">>
    /\ Unwrap(modIn).params = <<"pair", <<"u8", 1>>, <<"u16", 513>>>>
    /\ Unwrap(modOut).call = Some(<<"Ok", <<2, 1, 1, 1, 2>>>>)

\* C19: a blob whose magic prefix is not the reserved value fails with
\* InvalidPrefix, whatever its version tag and its modules are.
C19_InvalidPrefixFirst ==
    (IsSome(metaOut) /\ Unwrap(metaIn).prefix # META_RESERVED) =>
        ParseFailedWith("InvalidPrefix")

\* a wrong prefix on an unsupported version with well-formed modules
C19_Witness ==
    /\ IsSome(metaOut)
    /\ Unwrap(metaIn).prefix # META_RESERVED
    /\ Unwrap(metaIn).version = "V7"
    /\ Unwrap(metaIn).modules[1] = "Decoded"
    /\ ParseFailedWith("InvalidPrefix")

\* C20: with the right prefix only the one supported version is parsed; any
\* other version tag fails with InvalidVersion and gives no Metadata.
C20_OnlySupportedVersion ==
    (IsSome(metaOut) /\ Unwrap(metaIn).prefix = META_RESERVED) =>
        /\ Unwrap(metaIn).version # "V8" => ParseFailedWith("InvalidVersion")
        /\ ParsedOk => Unwrap(metaIn).version = "V8"

\* the right prefix on the version before the supported one
C20_Witness ==
    /\ IsSome(metaOut)
    /\ Unwrap(metaIn).prefix = META_RESERVED
    /\ Unwrap(metaIn).version = "V7"
    /\ Unwrap(metaIn).modules[1] = "Decoded"
    /\ Len(Unwrap(metaIn).modules[2]) > 0
    /\ ParseFailedWith("InvalidVersion")

\* the storage section of the module given to convert_module, and the names
\* of its entries
DeclaredSection == Unwrap(Unwrap(modIn).module.storage)[2]
DeclaredEntries ==
    LET entries == DeclaredSection.entries[2]
    IN {entries[k].name[2] : k \in 1..Len(entries)}
HasEntries == Converted /\ IsSome(Unwrap(modIn).module.storage)

\* C21 as stated: the prefix stored for a storage entry is the name of the
\* module, a single space, then the name of the entry.
C21_PrefixFromModuleName ==
    HasEntries =>
        LET module == Unwrap(modOut).module[2]
        IN /\ DOMAIN module.storage = DeclaredEntries
           /\ \A entry_name \in DOMAIN module.storage :
                 module.storage[entry_name].prefix = module.name \o " " \o entry_name

\* C21 amended: the prefix stored for a storage entry is the prefix that the
\* storage section of its module declares, a single space, then the name of
\* the entry.
C21_PrefixFromSection ==
    HasEntries =>
        LET module == Unwrap(modOut).module[2]
        IN /\ DOMAIN module.storage = DeclaredEntries
           /\ \A entry_name \in DOMAIN module.storage :
                 module.storage[entry_name].prefix
                     = DeclaredSection.prefix[2] \o " " \o entry_name

\* module M1 whose storage section declares the prefix P and two entries
C21_Witness ==
    /\ HasEntries
    /\ DeclaredSection.prefix = Decoded("P")
    /\ DeclaredEntries = {"e", "d"}
    /\ Unwrap(modOut).module[2].name = "M1"
    /\ Unwrap(modOut).module[2].storage["e"].prefix = "P e"
    /\ Unwrap(modOut).module[2].storage["d"].prefix = "P d"

\* the function a hasher stands for and the 8-byte words of its digest
HashFamily ==
    [Blake2_128 |-> "blake2b", Blake2_256 |-> "blake2b", Twox128 |-> "xxh64",
     Twox256 |-> "xxh64", Twox64Concat |-> "xxh64"]
DigestWords ==
    [Blake2_128 |-> 2, Blake2_256 |-> 4, Twox128 |-> 2, Twox256 |-> 4, Twox64Concat |-> 1]

\* the digest of the hasher over the bytes of the prefix followed by the
\* encoding of the key
HashedBy(hasher, prefix, key) ==
    [w \in 1..DigestWords[hasher] |->
        IF HashFamily[hasher] = "blake2b"
        THEN <<"blake2b", 8 * DigestWords[hasher], w, <<prefix>> \o encode(key)>>
        ELSE <<"xxh64", w - 1, <<prefix>> \o encode(key)>>]

\* the maps for which get_map gave a StorageMap
MapsBuilt == {ty \in DOMAIN keyOut : ty[1] = "Map" /\ keyOut[ty][1] = "Ok"}

\* C22: the key of a StorageMap is the digest, under the hasher of the entry,
\* of the prefix bytes followed by the encoded key: it depends on nothing but
\* prefix, hasher and key, and under two different hashers the same prefix
\* and key give different keys.
C22_KeyByHasher ==
    IsSome(keyIn) =>
        /\ \A ty \in MapsBuilt :
              keyOut[ty][2].StorageKey
                  = HashedBy(ty[2], Unwrap(keyIn).prefix, Unwrap(keyIn).key)
        /\ \A ty1, ty2 \in MapsBuilt :
              ty1 # ty2 => keyOut[ty1][2].StorageKey # keyOut[ty2][2].StorageKey

\* the key 258 of type u16 under the prefix "P e", hashed under all five
C22_Witness ==
    /\ IsSome(keyIn)
    /\ Unwrap(keyIn).prefix = "P e"
    /\ Unwrap(keyIn).key = <<"u16", 258>>
    /\ MapsBuilt = {<<"Map", hasher>> : hasher \in StorageHashers}
    /\ keyOut[<<"Map", "Twox64Concat">>][2].StorageKey = <<<<"xxh64", 0, <<"P e", 2, 1>>>>>>
    /\ Len(keyOut[<<"Map", "Blake2_256">>][2].StorageKey) = 4

---------------------------------------------------------------------------
(* Properties of EventArg *)

Parsed == IsSome(argIn) /\ IsSome(argOut.parsed)
\* the text given was written from a type descriptor
FromGrammar == IsSome(argIn) /\ IsSome(Unwrap(argIn).arg)

\* C23: the text of a type descriptor built from primitives, vectors and
\* tuples, nested in any way, parses to that type descriptor.
C23_ParsesGrammar ==
    (Parsed /\ FromGrammar) =>
        Unwrap(argOut.parsed) = <<"Ok", Unwrap(Unwrap(argIn).arg)>>

\* the names of a type descriptor as its text shows them from left to right:
\* what is left between the commas once "Vec<", ">", "(" and ")" are taken
\* out (no primitive name here holds one of these characters)
NamesInText(arg) ==
    LET IsName(c) == c \notin {"V", "e", "c", "<", ">", "(", ")"}
    IN split(SelectSeq(Text(arg, <<",">>), IsName), ",")

Flattened == FromGrammar /\ IsSome(argOut.primitives)

\* C24: primitives() gives the names of the Primitive leaves in the order in
\* which the type descriptor shows them, depth first and from left to right.
C24_LeavesInOrder ==
    Flattened =>
        Unwrap(argOut.primitives) = NamesInText(Unwrap(Unwrap(argIn).arg))

\* Vec<(u8,Vec<bool>)> has the primitives u8, bool
C24_Witness ==
    /\ Flattened
    /\ Unwrap(Unwrap(argIn).arg)
           = <<"Vec", <<"Tuple", << <<"Primitive", <<"u", "8">>>>,
                                    <<"Vec", <<"Primitive", <<"b", "o", "o", "l">>>>>> >>>>>>
    /\ Unwrap(argOut.primitives) = << <<"u", "8">>, <<"b", "o", "o", "l">> >>

\* a token that opens a Vec or a tuple and does not close it
Malformed(token) ==
    \/ starts_with(token, <<"V", "e", "c", "<">>) /\ ~ends_with(token, ">")
    \/ starts_with(token, <<"(">>) /\ ~ends_with(token, ")")

\* the tokens of a text at every depth: the text, what a closed Vec holds,
\* the trimmed pieces between the commas of a closed tuple, and their tokens
RECURSIVE Tokens(_)
Tokens(s) ==
    {s} \cup
    IF starts_with(s, <<"V", "e", "c", "<">>) /\ ends_with(s, ">")
    THEN Tokens(SubSeq(s, 5, Len(s) - 1))
    ELSE IF starts_with(s, <<"(">>) /\ ends_with(s, ")")
    THEN LET pieces == split(SubSeq(s, 2, Len(s) - 1), ",")
         IN UNION {Tokens(trim(pieces[k])) : k \in 1..Len(pieces)}
    ELSE {}

\* C25: a text one of whose tokens, at any depth, opens a Vec or a tuple and
\* does not close it fails to parse with InvalidEventArg: no primitive is
\* made of it.
C25_UnclosedFails ==
    (Parsed /\ \E token \in Tokens(Unwrap(argIn).text) : Malformed(token)) =>
        /\ Unwrap(argOut.parsed)[1] = "Err"
        /\ Unwrap(argOut.parsed)[2][1] = "InvalidEventArg"

\* (u8, Vec<u8) fails on its second member
C25_Witness ==
    /\ Parsed
    /\ Unwrap(argIn).text
           = <<"(", "u", "8", ",", " ", "V", "e", "c", "<", "u", "8", ")">>
    /\ Unwrap(argOut.parsed)
           = <<"Err", InvalidEventArg(<<"V", "e", "c", "<", "u", "8">>,
                                      "Expected closing > for Vec")>>

\* C26: a text that starts neither with "Vec<" nor with "(" parses to the
\* primitive of that very text.
C26_OtherIsPrimitive ==
    (Parsed /\ ~starts_with(Unwrap(argIn).text, <<"V", "e", "c", "<">>)
            /\ ~starts_with(Unwrap(argIn).text, <<"(">>)) =>
        Unwrap(argOut.parsed) = <<"Ok", <<"Primitive", Unwrap(argIn).text>>>>

\* a blank before Vec<u8> makes a primitive of the whole text, blank included
C26_Witness ==
    /\ Parsed
    /\ Unwrap(argIn).text = <<" ", "V", "e", "c", "<", "u", "8", ">">>
    /\ Unwrap(argOut.parsed)
           = <<"Ok", <<"Primitive", <<" ", "V", "e", "c", "<", "u", "8", ">">>>>>>

---------------------------------------------------------------------------
(* Properties of Metadata::module_name *)

\* the names of the modules of the Metadata that own an event ordinal
Owners(parsed, ordinal) ==
    {name \in DOMAIN parsed : parsed[name].index_for_events = Some(ordinal)}

\* C27: no two modules of a parsed Metadata own the same event ordinal;
\* module_name(b) returns the module that owns b, the one declared as the
\* (b+1)-th with events, whatever the order of the scan, and fails with
\* EventNotFound when no module owns b.
C27_OneOwner ==
    ParsedOk =>
        LET parsed == Unwrap(metaOut)[2].modules
        IN /\ \A ordinal \in 0..MaxModules : Cardinality(Owners(parsed, ordinal)) <= 1
           /\ IsSome(lookup) =>
                 LET b == Unwrap(lookup).module_index
                     found == Unwrap(lookup).found
                 IN IF Owners(parsed, b) = {}
                    THEN found = <<"Err", <<"EventNotFound", b>>>>
                    ELSE /\ found[1] = "Ok"
                         /\ Owners(parsed, b) = {found[2].name}
                         /\ found[2] = parsed[found[2].name]
                         /\ EventRank(GivenModules, LastNamed(GivenModules, found[2].name))
                                = b + 1

\* M1 with calls only, M2 and M3 with events: event index 1 belongs to M3
C27_Witness ==
    /\ ParsedOk
    /\ IsSome(lookup)
    /\ Len(GivenModules) = 3
    /\ \A i \in 1..3 : GivenModules[i].name = Decoded(<<"M1", "M2", "M3">>[i])
    /\ ~IsSome(GivenModules[1].event)
    /\ IsSome(GivenModules[2].event)
    /\ IsSome(GivenModules[3].event)
    /\ Unwrap(lookup).module_index = 1
    /\ Unwrap(lookup).found[1] = "Ok"
    /\ Unwrap(lookup).found[2].name = "M3"

\* no module owns the event index asked for
C27_NotFoundWitness ==
    /\ ParsedOk
    /\ IsSome(lookup)
    /\ Len(GivenModules) = 2
    /\ Unwrap(lookup).module_index = 2
    /\ Unwrap(lookup).found = <<"Err", <<"EventNotFound", 2>>>>

---------------------------------------------------------------------------
(* Progress of the submission *)

\* the statuses the node has pushed and the stream has not lost
StatusesDelivered == statusSeen \o statusBuf

\* index of the first status pushed that is no transient status, 0 if none
FirstDecisiveDelivered ==
    LET ks == {k \in 1..Len(StatusesDelivered) : ~TransientStatus(StatusesDelivered[k])}
    IN IF ks = {} THEN 0 ELSE CHOOSE k \in ks : \A j \in ks : k <= j

\* the status stream has emitted Finalized(B) after transient statuses only
FinalizedEmitted ==
    /\ FirstDecisiveDelivered > 0
    /\ StatusesDelivered[FirstDecisiveDelivered][1] = "Finalized"

FinalizedBlock == StatusesDelivered[FirstDecisiveDelivered][2]

\* the items the node has pushed on the storage subscription
ChangeSetsDelivered == eventsSeen \o eventBuf

\* index of the first change-set pushed for block b, 0 if none
FirstFor(b) ==
    LET ks == {k \in 1..Len(ChangeSetsDelivered) : ChangeSetsDelivered[k] = <<"Set", b>>}
    IN IF ks = {} THEN 0 ELSE CHOOSE k \in ks : \A j \in ks : k <= j

\* Finalized(B) was emitted and the subscription has delivered a change-set
\* for B, after change-sets of other blocks only
ChangeSetDelivered ==
    /\ FinalizedEmitted
    /\ FirstFor(FinalizedBlock) > 0
    /\ \A j \in 1..(FirstFor(FinalizedBlock) - 1) :
          /\ ChangeSetsDelivered[j][1] = "Set"
          /\ ChangeSetsDelivered[j][2] # FinalizedBlock

\* the node answers the block request, if it has, with a block that holds
\* the submitted extrinsic
BlockContainsSubmitted ==
    \/ blockResp = <<"Pending">>
    \/ /\ blockResp[1] = "Ok"
       /\ IsSome(blockResp[2])
       /\ IsSome(Position(Unwrap(blockResp[2]).extrinsics, Unwrap(ext_hash)))

\* the submission has resolved with a result, and the change-set its events
\* come from is the first one the subscription reported for B
ResolvedWithFirst ==
    /\ pc = "done"
    /\ IsSome(result)
    /\ IsSome(block_events)
    /\ Unwrap(block_events).block = Unwrap(bh)
    /\ eventsSeen # <<>>
    /\ Last(eventsSeen) = <<"Set", Unwrap(bh)>>
    /\ \A j \in 1..(Len(eventsSeen) - 1) : UnrelatedSet(eventsSeen[j])
    /\ Unwrap(result).block = Unwrap(bh)
    /\ Unwrap(result).events =
          AttributedEvents(block_events, Unwrap(ext_index))

\* C31: under fair delivery of responses and polls, when the fan-out
\* succeeds, the status stream emits Finalized(B), the block the node returns
\* for B holds the submitted extrinsic and the subscription delivers a
\* change-set for B (before or after the finalization is read, after any
\* number of change-sets of other blocks), the submission eventually resolves
\* with a result that uses the first change-set reported for B.
C31_EventuallyResolves ==
    ([]BlockContainsSubmitted /\ <>ChangeSetDelivered) => <>ResolvedWithFirst

\* resolved from the change-set for B that came after one of another block
C31_Witness ==
    /\ ResolvedWithFirst
    /\ Len(eventsSeen) = 2
    /\ Len(statusSeen) = 2

====
